---- MODULE Spec2Model ----
(***************************************************************************)
(* Verification session state machine (app/workflows/verification.py) and  *)
(* the score aggregation engine (app/activities/verification.py).          *)
(*                                                                         *)
(* Scores and weights are Python floats with up to two decimals after      *)
(* rounding; they are kept here as integers counting thousandths of a      *)
(* point, so that round(x, 2) is a real operation (Round2).                *)
(*                                                                         *)
(* The session is one Temporal workflow instance: the run coroutine and    *)
(* the signal handler coroutines are interleaved at their await points     *)
(* (every workflow.execute_activity and the wait_condition); the code      *)
(* between two awaits is one atomic step.                                  *)
(***************************************************************************)
EXTENDS Integers, Sequences, FiniteSets, TLC

Pts(n) == n * 1000

Min2(a, b) == IF a < b THEN a ELSE b
Max2(a, b) == IF a > b THEN a ELSE b

(***************************************************************************)
(* Bounds of the model.                                                    *)
(***************************************************************************)
MaxSignals == 2
MaxSerialSignals == 4
MaxAggLen == 5
MaxConnections == 3
MaxIterations == 3
MaxResponses == 3
MaxConfResponses == 6
MaxCompletions == 2
MaxRequests == 3
MaxLostAcks == 1

(***************************************************************************)
(* Score aggregation engine: calculate_verification_score.                 *)
(***************************************************************************)
\* method.get("weight", 0)
GetWeight(m) == IF "weight" \in DOMAIN m THEN m.weight ELSE 0

\* method.get("method", "unknown")
GetMethod(m) == IF "method" \in DOMAIN m THEN m.method ELSE "unknown"

\* sum(method.get("weight", 0) for method in verification_methods)
RECURSIVE SumWeights(_)
SumWeights(ms) ==
    IF ms = <<>> THEN 0 ELSE GetWeight(Head(ms)) + SumWeights(Tail(ms))

\* faulty variants of CapAt100: the cap forgotten, the cap written as a wrap-around
CapMissing(total_score) == total_score
CapWraps(total_score) == total_score % (Pts(100) + 1)

\* min(total_score, 100.0)
CapAt100(total_score) == Min2(total_score, Pts(100))

\* the loop that fills the dict method_types
RECURSIVE CountTypes(_, _)
CountTypes(ms, method_types) ==
    IF ms = <<>> THEN method_types
    ELSE LET method_type == GetMethod(Head(ms))
             counted == IF method_type \in DOMAIN method_types
                        THEN [method_types EXCEPT ![method_type] = @ + 1]
                        ELSE method_types @@ (method_type :> 1)
         IN  CountTypes(Tail(ms), counted)

\* method_types.get(key, 0)
DictGet(d, key) == IF key \in DOMAIN d THEN d[key] ELSE 0

\* round(x, 2) on thousandths: to the nearest hundredth, an exact tie to the
\* even hundredth (Python's round on an exactly representable value)
Round2(x) ==
    LET q == x \div 10
        r == x % 10
    IN  IF r < 5 THEN q * 10
        ELSE IF r > 5 THEN (q + 1) * 10
        ELSE IF q % 2 = 0 THEN q * 10 ELSE (q + 1) * 10

\* faulty variant of calculate_verification_score: the penalty taken off the raw sum,
\* the cap applied afterwards
PenaltyBeforeCap(verification_methods) ==
    LET total_score == SumWeights(verification_methods)
        method_types == CountTypes(verification_methods, [k \in {} |-> 0])
        reduced == IF DictGet(method_types, "community") > 2
                   THEN Max2(total_score
                             - (method_types["community"] - 2) * Pts(2), 0)
                   ELSE total_score
    IN  Round2(CapAt100(reduced))

calculate_verification_score(verification_methods) ==
    LET total_score == SumWeights(verification_methods)
        capped == CapAt100(total_score)
        method_types == CountTypes(verification_methods, [k \in {} |-> 0])
        final_score == IF DictGet(method_types, "community") > 2
                       THEN LET excess == method_types["community"] - 2
                            IN  Max2(capped - excess * Pts(2), 0)
                       ELSE capped
    IN  Round2(final_score)

(***************************************************************************)
(* record_verification_method: the upsert on the user's persisted list.    *)
(***************************************************************************)
\* next((i for i, m in enumerate(existing_methods) if ...), None); 0 is None
ExistingIndex(existing_methods, method_type) ==
    LET found == {i \in 1..Len(existing_methods) :
                     GetMethod(existing_methods[i]) = method_type}
    IN  IF found = {} THEN 0
        ELSE CHOOSE i \in found : \A j \in found : i <= j

\* faulty variant of UpsertMethod: the record is appended without the lookup
AlwaysAppend(existing_methods, method_dict) ==
    Append(existing_methods, method_dict)

UpsertMethod(existing_methods, method_dict) ==
    LET existing_index == ExistingIndex(existing_methods, method_dict.method)
    IN  IF existing_index # 0
        THEN [existing_methods EXCEPT ![existing_index] = method_dict]
        ELSE Append(existing_methods, method_dict)

\* update_user_verification_score: if not 0 <= score <= 100: raise ValueError
ScoreValid(score) == 0 <= score /\ score <= Pts(100)


(***************************************************************************)
(* Inputs.                                                                 *)
(***************************************************************************)
\* VerificationInput.target_score values given to run
TargetInputs == {Pts(0), Pts(60), Pts(100)}

\* the user's verification_methods column when the session starts: empty, or
\* what an earlier session left there (written by record_verification_method)
InitialPersisted == {<<>>, <<[method |-> "community", weight |-> Pts(40)]>>}

\* (method_type, weight) arguments of complete_verification_method
Submissions ==
    { [method |-> "community", weight |-> Pts(20)],
      [method |-> "activity", weight |-> Pts(15)],
      [method |-> "trust_network", weight |-> Pts(10)],
      [method |-> "document", weight |-> Pts(25)],
      [method |-> "community", weight |-> Pts(5)] }

\* values check_trust_network_strength returns (0 to 15 points)
TrustResults == {Pts(0), Pts(10)}

\* one coroutine per accepted signal, numbered in the order of arrival;
\* coroutine 0 is run itself when it calls _record_method
MaxCoros == IF MaxSignals > MaxSerialSignals THEN MaxSignals ELSE MaxSerialSignals
Coros == 0..MaxCoros
Handlers == 1..MaxCoros

VARIABLES
    target,           \* self._target_score
    dbMethods,        \* users.verification_methods of the session's user
    dbScore,          \* users.verification_score of the session's user
    methods,          \* self._methods_completed
    currentScore,     \* self._current_score
    complete,         \* self._verification_complete.is_set()
    cancelled,        \* self._cancelled
    timeoutReached,   \* self._timeout_reached
    runPc,            \* position of the run coroutine
    status,           \* local variable status of run
    finalScore,       \* local variable final_score of run
    result,           \* the VerificationResult returned by run
    co,               \* the coroutines executing _record_method or a handler
    env,              \* how the client sends signals: env.env, a submit or
                      \* recompute signal is sent only once the handler of
                      \* the previous one has ended; env.budget, the number
                      \* of signals it sends at most
    signals,          \* signals accepted so far
    finalTrustCalls,  \* calls of check_trust_network_strength made by run
    finalCalcCalls,   \* calls of calculate_verification_score made by run
    finalUpdateCalls, \* calls of update_user_verification_score made by run
    completeNotifs,   \* "verification_complete" notifications sent
    anyHandled,       \* some _record_method call has run to its end
    lateSignal,       \* a signal was accepted after the wait had ended
    atEnd,            \* the session's lists when the wait ended with no
                      \* coroutine in progress
    verification_status, \* the search attribute verification_status
    aggList,          \* a list given to calculate_verification_score
    aggPhase,         \* "build", "scored" or "raised"
    aggScore,         \* what calculate_verification_score returned for aggList
    aggBase           \* what it returned before one weight was raised

sessionVars ==
    <<target, dbMethods, dbScore, methods, currentScore, complete, cancelled,
      timeoutReached, runPc, status, finalScore, result, co, env, signals,
      finalTrustCalls, finalCalcCalls, finalUpdateCalls, completeNotifs,
      anyHandled, lateSignal, atEnd, verification_status>>

aggVars == <<aggList, aggPhase, aggScore, aggBase>>

\* check_trust_network_strength on its own
VARIABLES
    trustNet,         \* the connections of json.loads(user.trust_network)
    trustPhase,       \* "build" or "scored"
    trustScore        \* what check_trust_network_strength returned for trustNet

trustVars == <<trustNet, trustPhase, trustScore>>

\* ReputationDecayWorkflow and decay_reputation_score
VARIABLES
    decayInput,         \* the ReputationDecayInput of the current execution
    decayCancelled,     \* self._cancelled
    currentReputation,  \* self._current_reputation
    reputationScore,    \* users.reputation_score of the user
    userFound,          \* the user's row exists
    decayPc,            \* "sleeping", "activity" or "done"
    decayResult,        \* the ReputationDecayResult returned by run
    decayFirst,         \* the input and the score the chain started with
    decayCycles,        \* cycles ended since the chain started
    decayCalls,         \* decay_reputation_score calls of this execution
    decays,             \* decay_reputation_score calls that updated the row
    cancelSeen,         \* a cancel_decay signal was handled since the chain
                        \* started
    cycleWrites,        \* updates of the row made for the latest cycle whose
                        \* decay activity was scheduled
    lostAcks            \* attempts of the activity that committed and were
                        \* not acknowledged

decayVars ==
    <<decayInput, decayCancelled, currentReputation, reputationScore, userFound,
      decayPc, decayResult, decayFirst, decayCycles, decayCalls, decays,
      cancelSeen, cycleWrites, lostAcks>>

\* CommunityValidationWorkflow
VARIABLES
    communityInput,     \* the CommunityValidationInput given to run
    approvals,          \* self._approvals, each response by its validator_id
    rejections,         \* self._rejections, each response by its validator_id
    requiredCount,      \* self._required_count
    communityPc,        \* "requesting", "waiting", "aggregating", "storing"
                        \* or "done"
    validatorIds,       \* local variable validator_ids of run
    communityLocals,    \* local variables total_responses and success of run
                        \* and the lists given to aggregate_validation_scores
    communityTimedOut,  \* wait_condition raised asyncio.TimeoutError
    waitEnd,            \* the numbers of approvals and rejections when the
                        \* wait ended
    communityResult,    \* the CommunityValidationResult returned by run
    responsesSent       \* validator_response signals handled so far

communityVars ==
    <<communityInput, approvals, rejections, requiredCount, communityPc,
      validatorIds, communityLocals, communityTimedOut, waitEnd,
      communityResult, responsesSent>>

\* aggregate_validation_scores on its own
VARIABLES
    confApprovals,      \* the list approvals given to the function
    confRejections,     \* the list rejections given to the function
    confPhase,          \* "build" or "scored"
    confScore           \* what the function returned

confVars == <<confApprovals, confRejections, confPhase, confScore>>

\* InPersonVerificationWorkflow
VARIABLES
    inPersonInput,         \* the InPersonVerificationInput given to run
    findResult,            \* what find_available_verifiers returned
    appointment,           \* local variable appointment of run
    appointmentScheduled,  \* self._appointment_scheduled
    verificationCompleted, \* self._verification_completed
    verifierId,            \* self._verifier_id
    verificationDate,      \* self._verification_date
    inPersonPc,            \* "finding", "scheduling", "waiting", "storing"
                           \* or "done"
    scheduleCalls,         \* calls of schedule_verification_appointment
    inPersonResult,        \* the InPersonVerificationResult returned by run
    completionsSent        \* verification_completed signals handled so far

inPersonVars ==
    <<inPersonInput, findResult, appointment, appointmentScheduled,
      verificationCompleted, verifierId, verificationDate, inPersonPc,
      scheduleCalls, inPersonResult, completionsSent>>

\* DocumentVerificationWorkflow and check_document_validity
VARIABLES
    docInput,           \* the DocumentVerificationInput given to run
    docNow,             \* datetime.now() of the worker, as yyyymmdd
    docPc,              \* "extracting", "validating", "storing" or "done"
    extractedData,      \* local variable extracted_data of run
    validityResult,     \* local variable validity_result of run
    docResult           \* the DocumentVerificationResult returned by run

docVars ==
    <<docInput, docNow, docPc, extractedData, validityResult, docResult>>

\* ExampleParallelVerificationWorkflow, the parent of a document and a
\* community coordinator
VARIABLES
    parentPc,       \* "gathering", "done" or "failed"
    parentResult    \* the dict returned by run

parallelVars == <<parentPc, parentResult>>

\* one workflow.execute_activity call under its RetryPolicy
VARIABLES
    callSite,       \* the activity called and the RetryPolicy of the call
    callArgs,       \* what the call is about: whether the user exists, the
                    \* score is in range, the document type is supported
    attempts,       \* attempts of the activity made so far
    attemptLog,     \* the exception type each failed attempt raised
    callPc          \* "scheduled", "completed" or "failed"

retryVars == <<callSite, callArgs, attempts, attemptLog, callPc>>

\* the verification endpoints of the API, for one user
VARIABLES
    storedWorkflowId,   \* user.verification_workflow_id in the database,
                        \* "none" for None
    runs,               \* the executions of VerificationWorkflow the engine
                        \* holds for the user: "running", "cancelling" (final
                        \* steps after cancel_verification), "finishing"
                        \* (final steps otherwise) or "closed"
    requests            \* the requests in flight: kind, position, the
                        \* workflow id read from the database, the response

apiVars == <<storedWorkflowId, runs, requests>>

\* a request to POST /verification/start and the session it starts
VARIABLES
    startRequest,   \* the StartVerificationRequest received
    startPc,        \* "received", "rejected" (422), "validated" or "started"
    heldTarget      \* self._target_score of the session started

startVars == <<startRequest, startPc, heldTarget>>

\* one call of extract_document_data under its RetryPolicy
VARIABLES
    extractType,     \* the argument document_type
    extractAttempt,  \* the attempt of the activity that is running
    extractPc,       \* "starting", "heartbeat", "processing", "finishing",
                     \* "returned" or "failed"
    extractPage,     \* loop variable page
    startPage,       \* local variable start_page of the attempt
    detailsAtStart,  \* activity.info().heartbeat_details of the attempt
    serverDetails,   \* the heartbeat details the engine holds for the
                     \* activity, <<>> when there are none
    pendingDetails,  \* the details of a heartbeat the worker has not yet
                     \* delivered to the engine
    reportedPage,    \* the page index of the attempt's latest heartbeat
    pagesDone        \* the pages processed to the end in some attempt

extractVars ==
    <<extractType, extractAttempt, extractPc, extractPage, startPage,
      detailsAtStart, serverDetails, pendingDetails, reportedPage, pagesDone>>

\* the variables of the calculations and coordinators modelled on their own
subVars ==
    <<trustVars, decayVars, communityVars, confVars, inPersonVars, docVars,
      parallelVars, retryVars, apiVars, startVars, extractVars>>

vars == <<sessionVars, aggVars, subVars>>

exceptTrust ==
    <<sessionVars, aggVars, decayVars, communityVars, confVars, inPersonVars,
      docVars, parallelVars, retryVars, apiVars, startVars, extractVars>>
exceptDecay ==
    <<sessionVars, aggVars, trustVars, communityVars, confVars, inPersonVars,
      docVars, parallelVars, retryVars, apiVars, startVars, extractVars>>
exceptCommunity ==
    <<sessionVars, aggVars, trustVars, decayVars, confVars, inPersonVars,
      docVars, parallelVars, retryVars, apiVars, startVars, extractVars>>
exceptConf ==
    <<sessionVars, aggVars, trustVars, decayVars, communityVars, inPersonVars,
      docVars, parallelVars, retryVars, apiVars, startVars, extractVars>>
exceptInPerson ==
    <<sessionVars, aggVars, trustVars, decayVars, communityVars, confVars,
      docVars, parallelVars, retryVars, apiVars, startVars, extractVars>>
exceptDoc ==
    <<sessionVars, aggVars, trustVars, decayVars, communityVars, confVars,
      inPersonVars, parallelVars, retryVars, apiVars, startVars, extractVars>>
exceptParallel ==
    <<sessionVars, aggVars, trustVars, decayVars, communityVars, confVars,
      inPersonVars, docVars, retryVars, apiVars, startVars, extractVars>>
exceptRetry ==
    <<sessionVars, aggVars, trustVars, decayVars, communityVars, confVars,
      inPersonVars, docVars, parallelVars, apiVars, startVars, extractVars>>
exceptApi ==
    <<sessionVars, aggVars, trustVars, decayVars, communityVars, confVars,
      inPersonVars, docVars, parallelVars, retryVars, startVars, extractVars>>
exceptStart ==
    <<sessionVars, aggVars, trustVars, decayVars, communityVars, confVars,
      inPersonVars, docVars, parallelVars, retryVars, apiVars, extractVars>>
exceptExtract ==
    <<sessionVars, aggVars, trustVars, decayVars, communityVars, confVars,
      inPersonVars, docVars, parallelVars, retryVars, apiVars, startVars>>

IdleCo ==
    [pc |-> "idle", method |-> "none", weight |-> 0, res |-> <<>>,
     guarded |-> FALSE]
NoResult == [status |-> "none", final_score |-> 0, methods_completed |-> <<>>]
NotEnded == [idle |-> FALSE, methods |-> <<>>, db |-> <<>>]

Busy == \E c \in Coros : co[c].pc # "idle"
HandlerBusy == \E c \in Handlers : co[c].pc # "idle"

\* self._target_score = min(input.target_score, 100.0)
CapTarget(target_score) == Min2(target_score, Pts(100))

SessionStart(target_score, persisted) ==
    /\ target = CapTarget(target_score)
    /\ dbMethods = persisted
    /\ dbScore = calculate_verification_score(dbMethods)
    /\ methods = <<>>
    /\ currentScore = 0
    /\ complete = FALSE
    /\ cancelled = FALSE
    /\ timeoutReached = FALSE
    /\ runPc = "waiting"
    /\ status = "none"
    /\ finalScore = 0
    /\ result = NoResult
    /\ co = [c \in Coros |-> IdleCo]
    /\ signals = 0
    /\ finalTrustCalls = 0
    /\ finalCalcCalls = 0
    /\ finalUpdateCalls = 0
    /\ completeNotifs = 0
    /\ anyHandled = FALSE
    /\ lateSignal = FALSE
    /\ atEnd = NotEnded
    /\ verification_status = "in_progress"

InitSession ==
    \E t \in TargetInputs, p \in InitialPersisted : SessionStart(t, p)

InitAgg ==
    /\ aggList = <<>>
    /\ aggPhase = "build"
    /\ aggScore = 0
    /\ aggBase = 0

InitTrust ==
    /\ trustNet = <<>>
    /\ trustPhase = "build"
    /\ trustScore = 0

\* one point of reputation: 20^5 units, so that five successive products by
\* 0.95 of a whole number of points are whole numbers of units
RepPts(n) == n * (20 * 20 * 20 * 20 * 20)

\* ReputationDecayInput(user_id, decay_interval_days, max_iterations,
\* current_iteration)
DecayInputOf(max_iterations, current_iteration) ==
    [user_id |-> 1, decay_interval_days |-> 30,
     max_iterations |-> max_iterations,
     current_iteration |-> current_iteration]

NoDecayResult ==
    [iterations_completed |-> 0, final_reputation |-> 0,
     stopped_reason |-> "none"]

\* a fresh execution of ReputationDecayWorkflow.run on the given input
DecayExecution(input) ==
    /\ decayInput = input
    /\ decayCancelled = FALSE
    /\ currentReputation = 0
    /\ decayPc = "sleeping"
    /\ decayResult = NoDecayResult
    /\ decayCalls = 0

DecayStart(input, score, found) ==
    /\ DecayExecution(input)
    /\ reputationScore = score
    /\ userFound = found
    /\ decayFirst = [input |-> input, score |-> score]
    /\ decayCycles = 0
    /\ decays = 0
    /\ cancelSeen = FALSE
    /\ cycleWrites = 0
    /\ lostAcks = 0

InitDecay == DecayStart(DecayInputOf(1, 0), 0, TRUE)

\* CommunityValidationInput(user_id, required_validators,
\* validator_pool_size, timeout_hours)
CommunityInputOf(required_validators, validator_pool_size) ==
    [user_id |-> 0, required_validators |-> required_validators,
     validator_pool_size |-> validator_pool_size, timeout_hours |-> 72]

NoCommunityLocals ==
    [total_responses |-> 0, success |-> FALSE, approvals |-> <<>>,
     rejections |-> <<>>]

NoWaitEnd == [ended |-> FALSE, approvals |-> 0, rejections |-> 0]

NoCommunityResult ==
    [returned |-> FALSE, error |-> FALSE, success |-> FALSE,
     validators_approved |-> 0, validators_rejected |-> 0,
     validator_ids |-> <<>>, confidence_score |-> [num |-> 0, den |-> 1],
     timed_out |-> FALSE, evidence_approvals |-> 0, evidence_rejections |-> 0]

\* __init__ and run up to the call of request_community_validators
CommunityStart(input) ==
    /\ communityInput = input
    /\ approvals = <<>>
    /\ rejections = <<>>
    /\ requiredCount = input.required_validators
    /\ communityPc = "requesting"
    /\ validatorIds = <<>>
    /\ communityLocals = NoCommunityLocals
    /\ communityTimedOut = FALSE
    /\ waitEnd = NoWaitEnd
    /\ communityResult = NoCommunityResult
    /\ responsesSent = 0

InitCommunity == CommunityStart(CommunityInputOf(3, 10))

InitConf ==
    /\ confApprovals = <<>>
    /\ confRejections = <<>>
    /\ confPhase = "build"
    /\ confScore = [num |-> 0, den |-> 1]

\* InPersonVerificationInput(user_id, preferred_location,
\* preferred_time_slots, verifier_requirements)
InPersonInputOf(preferred_time_slots) ==
    [user_id |-> 1, preferred_location |-> "123 Main St",
     preferred_time_slots |-> preferred_time_slots]

NoFindResult == [returned |-> FALSE, verifiers |-> <<>>]

NoAppointment == [verifier_id |-> 0, scheduled_time |-> "none"]

NoInPersonResult ==
    [returned |-> FALSE, success |-> FALSE, appointment_scheduled |-> FALSE,
     verifier_id |-> 0, verification_date |-> "none", error |-> "none"]

\* __init__ and run up to the call of find_available_verifiers; None is
\* held as 0 for a verifier id and as "none" for a date
InPersonStart(input) ==
    /\ inPersonInput = input
    /\ findResult = NoFindResult
    /\ appointment = NoAppointment
    /\ appointmentScheduled = FALSE
    /\ verificationCompleted = FALSE
    /\ verifierId = 0
    /\ verificationDate = "none"
    /\ inPersonPc = "finding"
    /\ scheduleCalls = 0
    /\ inPersonResult = NoInPersonResult
    /\ completionsSent = 0

InitInPerson == InPersonStart(InPersonInputOf(<<"2025-11-01T10:00:00">>))

\* DocumentVerificationInput(user_id, document_type, document_url,
\* require_ocr)
DocInputOf(document_type) ==
    [user_id |-> 1, document_type |-> document_type,
     document_url |-> "s3://bucket/doc.jpg", require_ocr |-> TRUE]

NoData == [document_type |-> "none"]

NoValidity == [computed |-> FALSE, is_valid |-> FALSE, score |-> 0]

NoDocResult ==
    [returned |-> FALSE, error |-> FALSE, success |-> FALSE,
     validity_score |-> 0, extracted_data |-> NoData]

\* run up to the call of extract_document_data
DocStart(input, now) ==
    /\ docInput = input
    /\ docNow = now
    /\ docPc = "extracting"
    /\ extractedData = NoData
    /\ validityResult = NoValidity
    /\ docResult = NoDocResult

InitDoc == DocStart(DocInputOf("passport"), 20261103)

NoParentResult ==
    [returned |-> FALSE, success |-> FALSE, document_success |-> FALSE,
     community_success |-> FALSE]

\* run up to the await of asyncio.gather
InitParallel ==
    /\ parentPc = "gathering"
    /\ parentResult = NoParentResult

\* the call sites and their RetryPolicy: none names
\* non_retryable_error_types
CallSites ==
    {[activity |-> "record_verification_method", maximum_attempts |-> 5,
      non_retryable_error_types |-> {}],
     [activity |-> "update_user_verification_score", maximum_attempts |-> 5,
      non_retryable_error_types |-> {}],
     [activity |-> "extract_document_data", maximum_attempts |-> 3,
      non_retryable_error_types |-> {}]}

CallArgsOf(user_found, score_in_range, type_supported) ==
    [user_found |-> user_found, score_in_range |-> score_in_range,
     type_supported |-> type_supported]

\* workflow.execute_activity schedules the first attempt
CallStart(site, args) ==
    /\ callSite = site
    /\ callArgs = args
    /\ attempts = 0
    /\ attemptLog = <<>>
    /\ callPc = "scheduled"

InitRetry ==
    CallStart(CHOOSE site \in CallSites :
                  site.activity = "extract_document_data",
              CallArgsOf(TRUE, TRUE, TRUE))

Requests == 1..MaxRequests

IdleRequest ==
    [kind |-> "none", pc |-> "idle", read |-> "none", response |-> "none"]

\* an existing user without a session and no request in flight
InitApi ==
    /\ storedWorkflowId = "none"
    /\ runs = <<>>
    /\ requests = [r \in Requests |-> IdleRequest]

\* StartVerificationRequest(user_id, target_score, timeout_days)
StartRequestOf(target_score) ==
    [user_id |-> 1, target_score |-> target_score, timeout_days |-> 30]

\* the request is received; self._target_score is 50.0 in __init__
StartReceived(request) ==
    /\ startRequest = request
    /\ startPc = "received"
    /\ heldTarget = Pts(50)

InitStart == StartReceived(StartRequestOf(Pts(50)))

\* the first attempt of extract_document_data is scheduled
ExtractScheduled(document_type) ==
    /\ extractType = document_type
    /\ extractAttempt = 1
    /\ extractPc = "starting"
    /\ extractPage = 0
    /\ startPage = 0
    /\ detailsAtStart = <<>>
    /\ serverDetails = <<>>
    /\ pendingDetails = <<>>
    /\ reportedPage = 0 - 1
    /\ pagesDone = {}

InitExtract == ExtractScheduled("passport")

InitSub ==
    /\ InitTrust
    /\ InitDecay
    /\ InitCommunity
    /\ InitConf
    /\ InitInPerson
    /\ InitDoc
    /\ InitParallel
    /\ InitRetry
    /\ InitApi
    /\ InitStart
    /\ InitExtract

(***************************************************************************)
(* Decisions taken by run and _record_method.                              *)
(***************************************************************************)
\* faulty variant of TargetReached: the comparison written as a strict one
TargetReachedStrict(score, tgt) == score > tgt

\* if self._current_score >= self._target_score
TargetReached(score, tgt) == score >= tgt

\* faulty variant of WaitStatus: the override by self._cancelled left out
WaitStatusNoOverride == IF complete THEN "completed" ELSE "timeout"

\* status after wait_condition has returned
WaitStatus ==
    IF cancelled THEN "cancelled"
    ELSE IF complete THEN "completed" ELSE "timeout"

\* faulty variant of TimeoutStatus: the deadline reported as a completion
TimeoutStatusCompleted == "completed"

\* status set by the except asyncio.TimeoutError branch
TimeoutStatus == "timeout"

\* faulty variant of DoFinalTrust: the guard on self._cancelled left out
DoFinalTrustAlways == TRUE

\* if not self._cancelled, before the final trust network check
DoFinalTrust == ~cancelled

\* if not self._cancelled, before the final database update
DoFinalUpdate == ~cancelled

\* progress_percentage, in thousandths of a percent
progress_percentage ==
    IF target = 0 THEN Pts(100)
    ELSE LET hundredfold == currentScore * 100
             whole == hundredfold \div target
             rest == hundredfold % target
         IN  Min2(Pts(whole) + (Pts(rest) \div target), Pts(100))

(***************************************************************************)
(* Steps of the run coroutine that several actions share.                  *)
(***************************************************************************)
\* run calls calculate_verification_score on the list it holds at that moment
StartFinalCalc(ms) ==
    /\ runPc' = "finalCalc"
    /\ finalScore' = calculate_verification_score(ms)
    /\ finalCalcCalls' = finalCalcCalls + 1

RunStays == UNCHANGED <<runPc, finalScore, finalCalcCalls>>

\* return VerificationResult(...)
Return ==
    /\ runPc' = "done"
    /\ result' = [status |-> status, final_score |-> finalScore,
                  methods_completed |-> methods]

\* the statements of run between the end of the wait and its next await
EndWait(st) ==
    /\ status' = st
    /\ atEnd' = IF Busy THEN NotEnded
                ELSE [idle |-> TRUE, methods |-> methods, db |-> dbMethods]
    /\ IF DoFinalTrust
       THEN /\ co' = [co EXCEPT ![0] =
                         [IdleCo EXCEPT !.pc = "trust", !.guarded = TRUE]]
            /\ runPc' = "finalTrust"
            /\ finalTrustCalls' = finalTrustCalls + 1
            /\ UNCHANGED <<finalScore, finalCalcCalls>>
       ELSE /\ StartFinalCalc(methods)
            /\ UNCHANGED <<co, finalTrustCalls>>

\* the workflow accepts signals until run has returned; once the wait's
\* condition holds, run is resumed before any further signal is delivered
SignalGate ==
    /\ runPc \notin {"done", "failed"}
    /\ signals < env.budget
    /\ ~(runPc = "waiting" /\ (complete \/ cancelled))

Accepted ==
    /\ signals' = signals + 1
    /\ lateSignal' = (lateSignal \/ runPc # "waiting")

(***************************************************************************)
(* Signals.                                                                *)
(***************************************************************************)
complete_verification_method(sub) ==
    /\ SignalGate
    /\ env.serial => ~HandlerBusy
    /\ co' = [co EXCEPT ![signals + 1] =
                 [pc |-> "record", method |-> sub.method,
                  weight |-> sub.weight, res |-> <<>>, guarded |-> FALSE]]
    /\ Accepted
    /\ UNCHANGED <<aggVars, subVars, target, verification_status, dbMethods, dbScore, methods, currentScore, complete,
                   cancelled, timeoutReached, runPc, status, finalScore, result,
                   env, finalTrustCalls, finalCalcCalls, finalUpdateCalls,
                   completeNotifs, anyHandled, atEnd>>

update_trust_network ==
    /\ SignalGate
    /\ env.serial => ~HandlerBusy
    /\ co' = [co EXCEPT ![signals + 1] =
                 [IdleCo EXCEPT !.pc = "trust", !.guarded = TRUE]]
    /\ Accepted
    /\ UNCHANGED <<aggVars, subVars, target, verification_status, dbMethods, dbScore, methods, currentScore, complete,
                   cancelled, timeoutReached, runPc, status, finalScore, result,
                   env, finalTrustCalls, finalCalcCalls, finalUpdateCalls,
                   completeNotifs, anyHandled, atEnd>>

cancel_verification ==
    /\ SignalGate
    /\ cancelled' = TRUE
    /\ complete' = TRUE
    /\ Accepted
    /\ UNCHANGED <<aggVars, subVars, target, verification_status, dbMethods, dbScore, methods, currentScore,
                   timeoutReached, runPc, status, finalScore, result, co,
                   env, finalTrustCalls, finalCalcCalls, finalUpdateCalls,
                   completeNotifs, anyHandled, atEnd>>

(***************************************************************************)
(* check_trust_network_strength called by update_trust_network (c > 0) or  *)
(* by run (c = 0), and what follows it.                                    *)
(***************************************************************************)
Live == runPc \notin {"done", "failed"}

TrustActivity(c) ==
    /\ Live
    /\ co[c].pc = "trust"
    /\ \E trust_score \in TrustResults :
          IF trust_score > 0
          THEN /\ co' = [co EXCEPT ![c] =
                            [co[c] EXCEPT !.pc = "record",
                                          !.method = "trust_network",
                                          !.weight = trust_score]]
               /\ RunStays
          ELSE /\ co' = [co EXCEPT ![c] = IdleCo]
               /\ IF c = 0 THEN StartFinalCalc(methods) ELSE RunStays
    /\ UNCHANGED <<aggVars, subVars, target, verification_status, dbMethods, dbScore, methods, currentScore, complete,
                   cancelled, timeoutReached, status, result, env, signals,
                   finalTrustCalls, finalUpdateCalls, completeNotifs,
                   anyHandled, lateSignal, atEnd>>

\* the activity fails for good: both callers catch the exception and log it
TrustActivityFails(c) ==
    /\ Live
    /\ co[c].pc = "trust"
    /\ co' = [co EXCEPT ![c] = IdleCo]
    /\ IF c = 0 THEN StartFinalCalc(methods) ELSE RunStays
    /\ UNCHANGED <<aggVars, subVars, target, verification_status, dbMethods, dbScore, methods, currentScore, complete,
                   cancelled, timeoutReached, status, result, env, signals,
                   finalTrustCalls, finalUpdateCalls, completeNotifs,
                   anyHandled, lateSignal, atEnd>>

(***************************************************************************)
(* _record_method, executed by coroutine c.                                *)
(***************************************************************************)
\* the activity record_verification_method runs on the database
RecordActivity(c) ==
    /\ Live
    /\ co[c].pc = "record"
    /\ dbMethods' = UpsertMethod(dbMethods,
                        [method |-> co[c].method, weight |-> co[c].weight])
    /\ co' = [co EXCEPT ![c].pc = "recorded", ![c].res = dbMethods']
    /\ UNCHANGED <<aggVars, subVars, target, verification_status, dbScore, methods, currentScore, complete, cancelled,
                   timeoutReached, runPc, status, finalScore, result, env,
                   signals, finalTrustCalls, finalCalcCalls, finalUpdateCalls,
                   completeNotifs, anyHandled, lateSignal, atEnd>>

\* self._methods_completed = result["methods"], then the score activity is
\* called with that list
AfterRecord(c) ==
    /\ Live
    /\ co[c].pc = "recorded"
    /\ methods' = co[c].res
    /\ co' = [co EXCEPT ![c].pc = "calc"]
    /\ UNCHANGED <<aggVars, subVars, target, verification_status, dbMethods, dbScore, currentScore, complete,
                   cancelled, timeoutReached, runPc, status, finalScore, result,
                   env, signals, finalTrustCalls, finalCalcCalls,
                   finalUpdateCalls, completeNotifs, anyHandled, lateSignal,
                   atEnd>>

\* self._current_score = <result of calculate_verification_score>, then the
\* update activity is called with that score
AfterCalc(c) ==
    /\ Live
    /\ co[c].pc = "calc"
    /\ currentScore' = calculate_verification_score(co[c].res)
    /\ co' = [co EXCEPT ![c].pc = "update"]
    /\ UNCHANGED <<aggVars, subVars, target, verification_status, dbMethods, dbScore, methods, complete, cancelled,
                   timeoutReached, runPc, status, finalScore, result, env,
                   signals, finalTrustCalls, finalCalcCalls, finalUpdateCalls,
                   completeNotifs, anyHandled, lateSignal, atEnd>>

\* update_user_verification_score writes the score, the "method_completed"
\* notification is sent (it changes nothing here), then the target check
AfterUpdate(c) ==
    /\ Live
    /\ co[c].pc = "update"
    /\ ScoreValid(calculate_verification_score(co[c].res))
    /\ dbScore' = calculate_verification_score(co[c].res)
    /\ complete' = (complete \/ TargetReached(currentScore, target))
    /\ verification_status' =
          IF TargetReached(currentScore, target) THEN "completed"
          ELSE verification_status
    /\ co' = [co EXCEPT ![c] = IdleCo]
    /\ anyHandled' = TRUE
    /\ IF c = 0 THEN StartFinalCalc(methods) ELSE RunStays
    /\ UNCHANGED <<aggVars, subVars, target, dbMethods, methods, currentScore, cancelled,
                   timeoutReached, status, result, env, signals,
                   finalTrustCalls, finalUpdateCalls, completeNotifs,
                   lateSignal, atEnd>>

\* record_verification_method, calculate_verification_score or
\* update_user_verification_score fails for good. Inside a try block the
\* exception is caught and logged (run, update_trust_network); the handler
\* complete_verification_method does not catch it and the failure ends the
\* workflow.
RecordMethodFails(c) ==
    /\ Live
    /\ co[c].pc \in {"record", "calc", "update"}
    /\ IF co[c].guarded
       THEN /\ co' = [co EXCEPT ![c] = IdleCo]
            /\ IF c = 0 THEN StartFinalCalc(methods) ELSE RunStays
       ELSE /\ runPc' = "failed"
            /\ UNCHANGED <<co, finalScore, finalCalcCalls>>
    /\ UNCHANGED <<aggVars, subVars, target, verification_status, dbMethods, dbScore, methods, currentScore, complete,
                   cancelled, timeoutReached, status, result, env, signals,
                   finalTrustCalls, finalUpdateCalls, completeNotifs,
                   anyHandled, lateSignal, atEnd>>

\* update_user_verification_score has written the score and the
\* "method_completed" notification fails for good
NotificationFails(c) ==
    /\ Live
    /\ co[c].pc = "update"
    /\ ScoreValid(calculate_verification_score(co[c].res))
    /\ dbScore' = calculate_verification_score(co[c].res)
    /\ IF co[c].guarded
       THEN /\ co' = [co EXCEPT ![c] = IdleCo]
            /\ IF c = 0 THEN StartFinalCalc(methods) ELSE RunStays
       ELSE /\ runPc' = "failed"
            /\ UNCHANGED <<co, finalScore, finalCalcCalls>>
    /\ UNCHANGED <<aggVars, subVars, target, verification_status, dbMethods, methods, currentScore, complete,
                   cancelled, timeoutReached, status, result, env, signals,
                   finalTrustCalls, finalUpdateCalls, completeNotifs,
                   anyHandled, lateSignal, atEnd>>

(***************************************************************************)
(* run.                                                                    *)
(***************************************************************************)
\* wait_condition returns: its condition holds
WaitEnd ==
    /\ runPc = "waiting"
    /\ complete \/ cancelled
    /\ EndWait(WaitStatus)
    /\ UNCHANGED <<aggVars, subVars, target, verification_status, dbMethods, dbScore, methods, currentScore, complete,
                   cancelled, timeoutReached, result, env, signals,
                   finalUpdateCalls, completeNotifs, anyHandled, lateSignal>>

\* wait_condition raises asyncio.TimeoutError: the deadline has passed
Timeout ==
    /\ runPc = "waiting"
    /\ ~(complete \/ cancelled)
    /\ timeoutReached' = TRUE
    /\ EndWait(TimeoutStatus)
    /\ UNCHANGED <<aggVars, subVars, target, verification_status, dbMethods, dbScore, methods, currentScore, complete,
                   cancelled, result, env, signals, finalUpdateCalls,
                   completeNotifs, anyHandled, lateSignal>>

\* the final calculate_verification_score has returned
FinalCalcDone ==
    /\ runPc = "finalCalc"
    /\ currentScore' = finalScore
    /\ IF DoFinalUpdate
       THEN /\ runPc' = "finalUpdate"
            /\ finalUpdateCalls' = finalUpdateCalls + 1
            /\ UNCHANGED result
       ELSE /\ Return
            /\ UNCHANGED finalUpdateCalls
    /\ UNCHANGED <<aggVars, subVars, target, verification_status, dbMethods, dbScore, methods, complete, cancelled,
                   timeoutReached, status, finalScore, co, env, signals,
                   finalTrustCalls, finalCalcCalls, completeNotifs, anyHandled,
                   lateSignal, atEnd>>

\* the final update_user_verification_score writes the score, the
\* "verification_complete" notification is sent and run returns
FinalUpdate ==
    /\ runPc = "finalUpdate"
    /\ ScoreValid(finalScore)
    /\ dbScore' = finalScore
    /\ completeNotifs' = completeNotifs + 1
    /\ Return
    /\ UNCHANGED <<aggVars, subVars, target, verification_status, dbMethods, methods, currentScore, complete,
                   cancelled, timeoutReached, status, finalScore, co, env,
                   signals, finalTrustCalls, finalCalcCalls, finalUpdateCalls,
                   anyHandled, lateSignal, atEnd>>

\* the final update fails for good: the exception is caught and logged, the
\* notification is skipped and run returns
FinalUpdateFails ==
    /\ runPc = "finalUpdate"
    /\ Return
    /\ UNCHANGED <<aggVars, subVars, target, verification_status, dbMethods, dbScore, methods, currentScore, complete,
                   cancelled, timeoutReached, status, finalScore, co, env,
                   signals, finalTrustCalls, finalCalcCalls, finalUpdateCalls,
                   completeNotifs, anyHandled, lateSignal, atEnd>>

Next ==
    \/ \E sub \in Submissions : complete_verification_method(sub)
    \/ update_trust_network
    \/ cancel_verification
    \/ \E c \in Coros : TrustActivity(c)
    \/ \E c \in Coros : TrustActivityFails(c)
    \/ \E c \in Coros : RecordActivity(c)
    \/ \E c \in Coros : AfterRecord(c)
    \/ \E c \in Coros : AfterCalc(c)
    \/ \E c \in Coros : AfterUpdate(c)
    \/ \E c \in Coros : RecordMethodFails(c)
    \/ \E c \in Coros : NotificationFails(c)
    \/ WaitEnd
    \/ Timeout
    \/ FinalCalcDone
    \/ FinalUpdate
    \/ FinalUpdateFails

Init ==
    /\ InitSession
    /\ env = [serial |-> TRUE, budget |-> MaxSignals]
    /\ InitAgg
    /\ InitSub

Spec == Init /\ [][Next]_vars

\* The client sends submit signals one after another, each after the previous
\* one has been handled; it never cancels, the deadline does not pass and no
\* activity fails.
NextSerial ==
    \/ \E sub \in Submissions : complete_verification_method(sub)
    \/ \E c \in Coros : TrustActivity(c)
    \/ \E c \in Coros : RecordActivity(c)
    \/ \E c \in Coros : AfterRecord(c)
    \/ \E c \in Coros : AfterCalc(c)
    \/ \E c \in Coros : AfterUpdate(c)
    \/ WaitEnd
    \/ FinalCalcDone
    \/ FinalUpdate

InitSerial ==
    /\ InitSession
    /\ env = [serial |-> TRUE, budget |-> MaxSerialSignals]
    /\ InitAgg
    /\ InitSub

SpecSerial == InitSerial /\ [][NextSerial]_vars

(***************************************************************************)
(* calculate_verification_score on its own: a list of records is built,    *)
(* the function is applied to it, then one weight is raised and the        *)
(* function is applied again.                                              *)
(***************************************************************************)
\* records of the lists: weights with one and with three decimals, the largest
\* weight, a weight outside [0,100], a record without the key "weight"
AggRecords ==
    { [method |-> "community", weight |-> 500],
      [method |-> "community", weight |-> 12346],
      [method |-> "community", weight |-> Pts(30)],
      [method |-> "document", weight |-> Pts(100)],
      [method |-> "document", weight |-> 0 - Pts(5)],
      [method |-> "activity"] }

\* the weights a record is raised to
AggWeights == {12346, Pts(100)}

AggAppend(rec) ==
    /\ aggPhase = "build"
    /\ Len(aggList) < MaxAggLen
    /\ aggList' = Append(aggList, rec)
    /\ UNCHANGED <<sessionVars, subVars, aggPhase, aggScore, aggBase>>

AggApply ==
    /\ aggPhase = "build"
    /\ aggScore' = calculate_verification_score(aggList)
    /\ aggPhase' = "scored"
    /\ UNCHANGED <<sessionVars, subVars, aggList, aggBase>>

AggRaise(i, w) ==
    /\ aggPhase = "scored"
    /\ i \in 1..Len(aggList)
    /\ w > GetWeight(aggList[i])
    /\ aggBase' = aggScore
    /\ aggList' = [aggList EXCEPT ![i] =
                      [method |-> GetMethod(aggList[i]), weight |-> w]]
    /\ aggScore' = calculate_verification_score(aggList')
    /\ aggPhase' = "raised"
    /\ UNCHANGED <<sessionVars, subVars>>

NextAgg ==
    \/ \E rec \in AggRecords : AggAppend(rec)
    \/ AggApply
    \/ \E i \in 1..MaxAggLen, w \in AggWeights : AggRaise(i, w)

InitAggSpec ==
    /\ SessionStart(Pts(60), <<>>)
    /\ env = [serial |-> TRUE, budget |-> 0]
    /\ InitAgg
    /\ InitSub

SpecAgg == InitAggSpec /\ [][NextAgg]_vars

(***************************************************************************)
(* check_trust_network_strength on its own: the user's connections are     *)
(* built, then the function is applied to them.  Strengths are in          *)
(* hundredths, scores in thousandths of a point, the running total in      *)
(* units of 10^-7 point, the result in thousandths of a point.             *)
(***************************************************************************)
\* one point, in the units of the running total
FinePts(n) == n * 100 * Pts(100)

\* connection.get("strength", 0.5)
GetStrength(connection) ==
    IF "strength" \in DOMAIN connection THEN connection.strength ELSE 50

\* faulty variant of Qualifies: the floor of 50 counted as above the floor
QualifiesAtFloor(connection) ==
    /\ "score" \in DOMAIN connection
    /\ connection.score # 0
    /\ connection.score >= Pts(50)

\* if trusted_score and trusted_score > 50; a connection without the field
\* "score" is one whose trusted user has no row (scalar_one_or_none is None)
Qualifies(connection) ==
    /\ "score" \in DOMAIN connection
    /\ connection.score # 0
    /\ connection.score > Pts(50)

\* the loop over trust_network: total_trust += strength * (score / 100) * 15
RECURSIVE TotalTrust(_)
TotalTrust(trust_network) ==
    IF trust_network = <<>> THEN 0
    ELSE LET connection == Head(trust_network)
             rest == TotalTrust(Tail(trust_network))
         IN  IF Qualifies(connection)
             THEN rest + GetStrength(connection) * connection.score * 15
             ELSE rest

\* final_trust_score = min(total_trust, 15.0)
CapAt15(total_trust) == Min2(total_trust, FinePts(15))

\* round(x, 2) on the units of the running total, given in thousandths
RoundFine2(x) ==
    LET hundredth == FinePts(1) \div 100
        q == x \div hundredth
        r == x % hundredth
    IN  IF 2 * r < hundredth THEN q * 10
        ELSE IF 2 * r > hundredth THEN (q + 1) * 10
        ELSE IF q % 2 = 0 THEN q * 10 ELSE (q + 1) * 10

check_trust_network_strength(trust_network) ==
    IF trust_network = <<>> THEN 0
    ELSE RoundFine2(CapAt15(TotalTrust(trust_network)))

\* connections: strength absent, 0, 0.8 and 1; the trusted user absent or
\* with score 0, 50, 50.01, 60 and 100
TrustConnections ==
    {[score |-> t] : t \in {Pts(50), Pts(100)}}
    \cup {[strength |-> st] : st \in {80}}
    \cup {[strength |-> st, score |-> t] :
            st \in {0, 80, 100}, t \in {0, Pts(50), Pts(50) + 10, Pts(60), Pts(100)}}

TrustAppend(connection) ==
    /\ trustPhase = "build"
    /\ Len(trustNet) < MaxConnections
    /\ trustNet' = Append(trustNet, connection)
    /\ UNCHANGED <<exceptTrust, trustPhase, trustScore>>

TrustApply ==
    /\ trustPhase = "build"
    /\ trustScore' = check_trust_network_strength(trustNet)
    /\ trustPhase' = "scored"
    /\ UNCHANGED <<exceptTrust, trustNet>>

NextTrust ==
    \/ \E connection \in TrustConnections : TrustAppend(connection)
    \/ TrustApply

\* the session at rest while a calculation or coordinator is examined alone
SessionAtRest ==
    /\ SessionStart(Pts(60), <<>>)
    /\ env = [serial |-> TRUE, budget |-> 0]

InitTrustSpec ==
    /\ SessionAtRest
    /\ InitAgg
    /\ InitSub

SpecTrust == InitTrustSpec /\ [][NextTrust]_vars

(***************************************************************************)
(* ReputationDecayWorkflow: sleep, decay, then stop or continue as new.    *)
(***************************************************************************)
\* faulty variant of DecayScore: five points taken off instead of five percent
DecayByFivePoints(old_score) == Max2(old_score - RepPts(5), 0)

\* new_score = max(old_score * 0.95, 0.0)
DecayScore(old_score) == Max2((old_score \div 20) * 19, 0)

\* faulty variant of CancelledIterations: the cycle that was cut short counted
CancelledIterationsPlusOne(input) == input.current_iteration + 1

\* iterations_completed=input.current_iteration in the cancelled result
CancelledIterations(input) == input.current_iteration

\* faulty variant of ShouldStop: one cycle too many
ShouldStopLate(next_iteration, input) == next_iteration > input.max_iterations

\* if next_iteration >= input.max_iterations
ShouldStop(next_iteration, input) == next_iteration >= input.max_iterations

\* the inputs a chain starts with, the scores the user's row then holds
DecayInputs ==
    {DecayInputOf(m, i) : m \in 0..MaxIterations, i \in {0, 2}}

ReputationScores == {RepPts(0), RepPts(40), RepPts(100)}

\* cancel_decay
cancel_decay ==
    /\ decayPc # "done"
    /\ ~decayCancelled
    /\ decayCancelled' = TRUE
    /\ cancelSeen' = TRUE
    /\ UNCHANGED <<exceptDecay, decayInput, currentReputation, reputationScore,
                   userFound, decayPc, decayResult, decayFirst, decayCycles,
                   decayCalls, decays, cycleWrites, lostAcks>>

\* wait_condition returns, or times out, with self._cancelled set: run
\* returns the cancelled result
DecayWake ==
    /\ decayPc = "sleeping"
    /\ decayCancelled
    /\ decayPc' = "done"
    /\ decayResult' =
          [iterations_completed |-> CancelledIterations(decayInput),
           final_reputation |-> currentReputation,
           stopped_reason |-> "cancelled"]
    /\ UNCHANGED <<exceptDecay, decayInput, decayCancelled, currentReputation,
                   reputationScore, userFound, decayFirst, decayCycles,
                   decayCalls, decays, cancelSeen, cycleWrites, lostAcks>>

\* wait_condition times out with self._cancelled not set: run schedules
\* decay_reputation_score
DecaySleepOver ==
    /\ decayPc = "sleeping"
    /\ ~decayCancelled
    /\ decayPc' = "activity"
    /\ decayCalls' = decayCalls + 1
    /\ cycleWrites' = 0
    /\ UNCHANGED <<exceptDecay, decayInput, decayCancelled, currentReputation,
                   reputationScore, userFound, decayResult, decayFirst,
                   decayCycles, decays, cancelSeen, lostAcks>>

\* the end of a cycle: the max_iterations result, or continue_as_new, which
\* starts a fresh execution (a new workflow object) on the new input
EndCycle(reputation) ==
    LET next_iteration == decayInput.current_iteration + 1
    IN  /\ decayCycles' = decayCycles + 1
        /\ IF ShouldStop(next_iteration, decayInput)
           THEN /\ decayPc' = "done"
                /\ decayResult' =
                      [iterations_completed |-> next_iteration,
                       final_reputation |-> reputation,
                       stopped_reason |-> "max_iterations"]
                /\ currentReputation' = reputation
                /\ UNCHANGED <<decayInput, decayCancelled, decayCalls>>
           ELSE /\ decayInput' =
                      DecayInputOf(decayInput.max_iterations, next_iteration)
                /\ decayCancelled' = FALSE
                /\ currentReputation' = 0
                /\ decayPc' = "sleeping"
                /\ decayCalls' = 0
                /\ UNCHANGED decayResult

\* decay_reputation_score returns: the row updated, or 0.0 for a missing user
DecayActivityDone ==
    /\ decayPc = "activity"
    /\ IF userFound
       THEN /\ reputationScore' = DecayScore(reputationScore)
            /\ decays' = decays + 1
            /\ cycleWrites' = cycleWrites + 1
            /\ EndCycle(reputationScore')
       ELSE /\ UNCHANGED <<reputationScore, decays, cycleWrites>>
            /\ EndCycle(0)
    /\ UNCHANGED <<exceptDecay, userFound, decayFirst, cancelSeen, lostAcks>>

\* decay_reputation_score raises after its retries: run logs and goes on
DecayActivityFails ==
    /\ decayPc = "activity"
    /\ EndCycle(currentReputation)
    /\ UNCHANGED <<exceptDecay, reputationScore, userFound, decayFirst, decays,
                   cancelSeen, cycleWrites, lostAcks>>

DecayRun ==
    \/ DecayWake
    \/ DecaySleepOver
    \/ DecayActivityDone
    \/ DecayActivityFails

NextDecay ==
    \/ cancel_decay
    \/ DecayRun

InitDecaySpec ==
    /\ SessionAtRest
    /\ InitAgg
    /\ InitTrust
    /\ InitCommunity
    /\ InitConf
    /\ InitInPerson
    /\ InitDoc
    /\ InitParallel
    /\ InitRetry
    /\ InitApi
    /\ InitStart
    /\ InitExtract
    /\ \E input \in DecayInputs, score \in ReputationScores, found \in BOOLEAN :
          DecayStart(input, score, found)

SpecDecay == InitDecaySpec /\ [][NextDecay]_vars

\* the timer of the sleep fires and an activity ends, in success or in failure
SpecDecayFair == SpecDecay /\ WF_vars(DecayRun)

(***************************************************************************)
(* aggregate_validation_scores.  The confidence score is held as the exact *)
(* fraction num / den of a percentage.                                     *)
(***************************************************************************)
\* faulty variant of ConfidenceMultiplier: the bounds of the bands included
ConfidenceMultiplierInclusive(total) ==
    IF total <= 3 THEN 70 ELSE IF total <= 5 THEN 85 ELSE 100

\* confidence_multiplier, in hundredths
ConfidenceMultiplier(total) ==
    IF total < 3 THEN 70 ELSE IF total < 5 THEN 85 ELSE 100

aggregate_validation_scores(approvals_, rejections_) ==
    IF approvals_ = <<>> /\ rejections_ = <<>> THEN [num |-> 0, den |-> 1]
    ELSE LET total == Len(approvals_) + Len(rejections_)
         IN  [num |-> Len(approvals_) * 100 * ConfidenceMultiplier(total),
              den |-> total * 100]

\* the validators that answer
Responders == 1..3

ConfAppend(validator_id, approved) ==
    /\ confPhase = "build"
    /\ Len(confApprovals) + Len(confRejections) < MaxConfResponses
    /\ IF approved
       THEN /\ confApprovals' = Append(confApprovals, validator_id)
            /\ UNCHANGED confRejections
       ELSE /\ confRejections' = Append(confRejections, validator_id)
            /\ UNCHANGED confApprovals
    /\ UNCHANGED <<exceptConf, confPhase, confScore>>

ConfApply ==
    /\ confPhase = "build"
    /\ confScore' = aggregate_validation_scores(confApprovals, confRejections)
    /\ confPhase' = "scored"
    /\ UNCHANGED <<exceptConf, confApprovals, confRejections>>

NextConf ==
    \/ \E validator_id \in Responders, approved \in BOOLEAN :
          ConfAppend(validator_id, approved)
    \/ ConfApply

InitConfSpec ==
    /\ SessionAtRest
    /\ InitAgg
    /\ InitSub

SpecConf == InitConfSpec /\ [][NextConf]_vars

(***************************************************************************)
(* CommunityValidationWorkflow.                                            *)
(***************************************************************************)
\* self._validation_complete: set in __init__, assigned nowhere else
validation_complete == FALSE

\* faulty variant of WaitCondition: approvals counted instead of responses
WaitConditionApprovals ==
    Len(approvals) >= communityInput.required_validators \/ validation_complete

\* the condition of wait_condition
WaitCondition ==
    \/ Len(approvals) + Len(rejections) >= communityInput.required_validators
    \/ validation_complete

\* request_community_validators: [user_id + i for i in 1..min(pool_size, 5)]
request_community_validators(user_id, pool_size) ==
    [i \in 1..Min2(pool_size, 5) |-> user_id + i]

CommunityInputs ==
    {CommunityInputOf(required, pool) : required \in 1..3, pool \in {2, 10}}

\* validator_response(validator_id, approved, comment)
validator_response(validator_id, approved) ==
    /\ communityPc # "done"
    /\ responsesSent < MaxResponses
    /\ responsesSent' = responsesSent + 1
    /\ IF approved
       THEN /\ approvals' = Append(approvals, validator_id)
            /\ UNCHANGED rejections
       ELSE /\ rejections' = Append(rejections, validator_id)
            /\ UNCHANGED approvals
    /\ UNCHANGED <<exceptCommunity, communityInput, requiredCount, communityPc,
                   validatorIds, communityLocals, communityTimedOut, waitEnd,
                   communityResult>>

\* the result of the except branch of run
CommunityErrorResult ==
    [returned |-> TRUE, error |-> TRUE, success |-> FALSE,
     validators_approved |-> Len(approvals),
     validators_rejected |-> Len(rejections),
     validator_ids |-> <<>>, confidence_score |-> [num |-> 0, den |-> 1],
     timed_out |-> FALSE, evidence_approvals |-> 0, evidence_rejections |-> 0]

\* faulty variant of CommunityFails: the exception leaves run
CommunityFailsAbnormally ==
    /\ communityPc' = "failed"
    /\ UNCHANGED <<exceptCommunity, communityInput, approvals, rejections,
                   requiredCount, validatorIds, communityLocals,
                   communityTimedOut, waitEnd, responsesSent, communityResult>>

\* the except branch of run
CommunityFails ==
    /\ communityPc' = "done"
    /\ communityResult' = CommunityErrorResult
    /\ UNCHANGED <<exceptCommunity, communityInput, approvals, rejections,
                   requiredCount, validatorIds, communityLocals,
                   communityTimedOut, waitEnd, responsesSent>>

\* request_community_validators returns
CommunityRequested ==
    /\ communityPc = "requesting"
    /\ validatorIds' =
          request_community_validators(communityInput.user_id,
                                       communityInput.validator_pool_size)
    /\ communityPc' = "waiting"
    /\ UNCHANGED <<exceptCommunity, communityInput, approvals, rejections,
                   requiredCount, communityLocals, communityTimedOut, waitEnd,
                   communityResult, responsesSent>>

\* an activity of run raises: request_community_validators,
\* aggregate_validation_scores or store_verification_evidence
CommunityActivityFails ==
    /\ communityPc \in {"requesting", "aggregating", "storing"}
    /\ CommunityFails

\* step 3 of run, up to the call of aggregate_validation_scores
Aggregate ==
    /\ communityLocals' =
          [total_responses |-> Len(approvals) + Len(rejections),
           success |->
              Len(approvals) >= communityInput.required_validators,
           approvals |-> approvals,
           rejections |-> rejections]
    /\ waitEnd' = [ended |-> TRUE, approvals |-> Len(approvals),
                   rejections |-> Len(rejections)]
    /\ communityPc' = "aggregating"

\* wait_condition returns
CommunityWaitDone ==
    /\ communityPc = "waiting"
    /\ WaitCondition
    /\ Aggregate
    /\ UNCHANGED <<exceptCommunity, communityInput, approvals, rejections,
                   requiredCount, validatorIds, communityTimedOut,
                   communityResult, responsesSent>>

\* wait_condition raises asyncio.TimeoutError
CommunityTimeout ==
    /\ communityPc = "waiting"
    /\ ~WaitCondition
    /\ communityTimedOut' = TRUE
    /\ Aggregate
    /\ UNCHANGED <<exceptCommunity, communityInput, approvals, rejections,
                   requiredCount, validatorIds, communityResult, responsesSent>>

\* aggregate_validation_scores returns; run builds evidence and calls
\* store_verification_evidence
CommunityAggregated ==
    /\ communityPc = "aggregating"
    /\ communityResult' =
          [communityResult EXCEPT
             !.confidence_score =
                 aggregate_validation_scores(communityLocals.approvals,
                                             communityLocals.rejections),
             !.timed_out =
                 communityLocals.total_responses
                    < communityInput.required_validators,
             !.evidence_approvals = Len(approvals),
             !.evidence_rejections = Len(rejections)]
    /\ communityPc' = "storing"
    /\ UNCHANGED <<exceptCommunity, communityInput, approvals, rejections,
                   requiredCount, validatorIds, communityLocals,
                   communityTimedOut, waitEnd, responsesSent>>

\* store_verification_evidence returns; run returns its result
CommunityStored ==
    /\ communityPc = "storing"
    /\ communityResult' =
          [communityResult EXCEPT
             !.returned = TRUE,
             !.success = communityLocals.success,
             !.validators_approved = Len(approvals),
             !.validators_rejected = Len(rejections),
             !.validator_ids = validatorIds]
    /\ communityPc' = "done"
    /\ UNCHANGED <<exceptCommunity, communityInput, approvals, rejections,
                   requiredCount, validatorIds, communityLocals,
                   communityTimedOut, waitEnd, responsesSent>>

\* validation_progress
validation_progress ==
    [approvals |-> Len(approvals), rejections |-> Len(rejections),
     required |-> requiredCount,
     complete |-> Len(approvals) >= requiredCount]

NextCommunity ==
    \/ \E validator_id \in Responders, approved \in BOOLEAN :
          validator_response(validator_id, approved)
    \/ CommunityRequested
    \/ CommunityActivityFails
    \/ CommunityWaitDone
    \/ CommunityTimeout
    \/ CommunityAggregated
    \/ CommunityStored

InitCommunitySpec ==
    /\ SessionAtRest
    /\ InitAgg
    /\ InitTrust
    /\ InitDecay
    /\ InitConf
    /\ InitInPerson
    /\ InitDoc
    /\ InitParallel
    /\ InitRetry
    /\ InitApi
    /\ InitStart
    /\ InitExtract
    /\ \E input \in CommunityInputs : CommunityStart(input)

SpecCommunity == InitCommunitySpec /\ [][NextCommunity]_vars

(***************************************************************************)
(* InPersonVerificationWorkflow.  The verifiers found and the appointment  *)
(* come from activities, whose results are inputs of the workflow (the     *)
(* find_available_verifiers of the repository is a placeholder that        *)
(* returns two verifiers).                                                 *)
(***************************************************************************)
\* faulty variant of NoVerifiers: the test for an empty list left out
NoVerifiersNever(available_verifiers) == FALSE

\* if not available_verifiers
NoVerifiers(available_verifiers) == available_verifiers = <<>>

\* the lists find_available_verifiers returns, each verifier by its id
VerifierLists == {<<>>, <<1001>>, <<1001, 1002>>}

InPersonInputs ==
    {InPersonInputOf(slots) :
        slots \in {<<>>, <<"2025-11-01T10:00:00">>,
                   <<"2025-11-01T10:00:00", "2025-11-01T14:00:00">>}}

\* the verifiers that report a completed verification, and the dates
Verifiers == {1001, 1002}
VerificationDates == {"2025-11-01", "2025-11-02"}

\* verification_completed(verifier_id, verification_date)
verification_completed(verifier_id, verification_date) ==
    /\ inPersonPc # "done"
    /\ completionsSent < MaxCompletions
    /\ completionsSent' = completionsSent + 1
    /\ verificationCompleted' = TRUE
    /\ verifierId' = verifier_id
    /\ verificationDate' = verification_date
    /\ UNCHANGED <<exceptInPerson, inPersonInput, findResult, appointment,
                   appointmentScheduled, inPersonPc, scheduleCalls,
                   inPersonResult>>

\* run returns the given result
InPersonReturn(res) ==
    /\ inPersonPc' = "done"
    /\ inPersonResult' = res

\* the result of the except branch of run
InPersonErrorResult(scheduled, message) ==
    [returned |-> TRUE, success |-> FALSE, appointment_scheduled |-> scheduled,
     verifier_id |-> verifierId, verification_date |-> verificationDate,
     error |-> message]

\* find_available_verifiers returns: the result for no verifier, or the call
\* of schedule_verification_appointment, whose arguments
\* available_verifiers[0] and preferred_time_slots[0] raise IndexError on an
\* empty list
InPersonFound(available_verifiers) ==
    /\ inPersonPc = "finding"
    /\ findResult' = [returned |-> TRUE, verifiers |-> available_verifiers]
    /\ IF NoVerifiers(available_verifiers)
       THEN /\ InPersonReturn(
                  [returned |-> TRUE, success |-> FALSE,
                   appointment_scheduled |-> FALSE, verifier_id |-> 0,
                   verification_date |-> "none",
                   error |-> "No available verifiers"])
            /\ UNCHANGED scheduleCalls
       ELSE IF available_verifiers = <<>>
               \/ inPersonInput.preferred_time_slots = <<>>
       THEN /\ InPersonReturn(
                  InPersonErrorResult(appointmentScheduled, "IndexError"))
            /\ UNCHANGED scheduleCalls
       ELSE /\ inPersonPc' = "scheduling"
            /\ scheduleCalls' = scheduleCalls + 1
            /\ UNCHANGED inPersonResult
    /\ UNCHANGED <<exceptInPerson, inPersonInput, appointment,
                   appointmentScheduled, verificationCompleted, verifierId,
                   verificationDate, completionsSent>>

\* an activity of run raises: find_available_verifiers,
\* schedule_verification_appointment or store_verification_evidence
InPersonActivityFails ==
    /\ inPersonPc \in {"finding", "scheduling", "storing"}
    /\ InPersonReturn(InPersonErrorResult(appointmentScheduled, "ActivityError"))
    /\ UNCHANGED <<exceptInPerson, inPersonInput, findResult, appointment,
                   appointmentScheduled, verificationCompleted, verifierId,
                   verificationDate, scheduleCalls, completionsSent>>

\* schedule_verification_appointment returns
InPersonScheduled ==
    /\ inPersonPc = "scheduling"
    /\ appointment' =
          [verifier_id |-> findResult.verifiers[1],
           scheduled_time |-> inPersonInput.preferred_time_slots[1]]
    /\ appointmentScheduled' = TRUE
    /\ inPersonPc' = "waiting"
    /\ UNCHANGED <<exceptInPerson, inPersonInput, findResult,
                   verificationCompleted, verifierId, verificationDate,
                   scheduleCalls, inPersonResult, completionsSent>>

\* wait_condition returns; run calls store_verification_evidence
InPersonWaitDone ==
    /\ inPersonPc = "waiting"
    /\ verificationCompleted
    /\ inPersonPc' = "storing"
    /\ UNCHANGED <<exceptInPerson, inPersonInput, findResult, appointment,
                   appointmentScheduled, verificationCompleted, verifierId,
                   verificationDate, scheduleCalls, inPersonResult,
                   completionsSent>>

\* wait_condition raises asyncio.TimeoutError after 7 days
InPersonTimeout ==
    /\ inPersonPc = "waiting"
    /\ ~verificationCompleted
    /\ InPersonReturn(
          [returned |-> TRUE, success |-> FALSE,
           appointment_scheduled |-> TRUE,
           verifier_id |-> appointment.verifier_id,
           verification_date |-> "none", error |-> "Appointment timeout"])
    /\ UNCHANGED <<exceptInPerson, inPersonInput, findResult, appointment,
                   appointmentScheduled, verificationCompleted, verifierId,
                   verificationDate, scheduleCalls, completionsSent>>

\* store_verification_evidence returns; run returns the success result
InPersonStored ==
    /\ inPersonPc = "storing"
    /\ InPersonReturn(
          [returned |-> TRUE, success |-> TRUE, appointment_scheduled |-> TRUE,
           verifier_id |-> verifierId, verification_date |-> verificationDate,
           error |-> "none"])
    /\ UNCHANGED <<exceptInPerson, inPersonInput, findResult, appointment,
                   appointmentScheduled, verificationCompleted, verifierId,
                   verificationDate, scheduleCalls, completionsSent>>

NextInPerson ==
    \/ \E verifier_id \in Verifiers, verification_date \in VerificationDates :
          verification_completed(verifier_id, verification_date)
    \/ \E available_verifiers \in VerifierLists :
          InPersonFound(available_verifiers)
    \/ InPersonActivityFails
    \/ InPersonScheduled
    \/ InPersonWaitDone
    \/ InPersonTimeout
    \/ InPersonStored

InitInPersonSpec ==
    /\ SessionAtRest
    /\ InitAgg
    /\ InitTrust
    /\ InitDecay
    /\ InitCommunity
    /\ InitConf
    /\ InitDoc
    /\ InitParallel
    /\ InitRetry
    /\ InitApi
    /\ InitStart
    /\ InitExtract
    /\ \E input \in InPersonInputs : InPersonStart(input)

SpecInPerson == InitInPersonSpec /\ [][NextInPerson]_vars

(***************************************************************************)
(* check_document_validity and DocumentVerificationWorkflow.  Scores are   *)
(* in thousandths of a point; an instant is yyyymmddhh.  The data          *)
(* extracted from a document is an input of the workflow (the              *)
(* extract_document_data of the repository returns fixed mock data).       *)
(***************************************************************************)
\* faulty variant of IsValidScore: the threshold at 80
IsValidScoreAt80(score) == score >= Pts(80)

\* is_valid = score >= 60.0
IsValidScore(score) == score >= Pts(60)

\* the table required_fields; .get(document_type, []) for any other type
RequiredFields(document_type) ==
    CASE document_type = "passport" ->
            {"full_name", "date_of_birth", "passport_number", "country"}
      [] document_type = "drivers_license" ->
            {"full_name", "date_of_birth", "license_number", "state"}
      [] document_type = "national_id" ->
            {"full_name", "date_of_birth", "id_number", "country"}
      [] OTHER -> {}

\* datetime.fromisoformat: ok is false where it raises ValueError, aware
\* tells a value with a UTC offset, at is the instant
fromisoformat(date_string) ==
    CASE date_string = "2030-01-01" ->
            [ok |-> TRUE, aware |-> FALSE, at |-> 20300101 * 100]
      [] date_string = "2028-05-15" ->
            [ok |-> TRUE, aware |-> FALSE, at |-> 20280515 * 100]
      [] date_string = "2020-06-30" ->
            [ok |-> TRUE, aware |-> FALSE, at |-> 20200630 * 100]
      [] date_string = "2030-01-01T00:00:00+00:00" ->
            [ok |-> TRUE, aware |-> TRUE, at |-> 20300101 * 100]
      [] OTHER -> [ok |-> FALSE, aware |-> FALSE, at |-> 0]

\* check_document_validity(document_type, extracted_data) at the instant
\* now; raised tells the TypeError of comparing an aware value with the
\* naive datetime.now(), which the function does not catch
check_document_validity(document_type, extracted_data, now) ==
    LET missing_fields ==
            RequiredFields(document_type) \ DOMAIN extracted_data
        afterFields ==
            IF missing_fields # {} THEN Pts(100) - Pts(30) ELSE Pts(100)
        hasDate == "expiration_date" \in DOMAIN extracted_data
        expiration == fromisoformat(extracted_data["expiration_date"])
        score ==
            IF ~hasDate THEN afterFields
            ELSE IF ~expiration.ok THEN afterFields - Pts(20)
            ELSE IF expiration.at < now THEN afterFields - Pts(50)
            ELSE afterFields
    IN  [raised |-> hasDate /\ expiration.ok /\ expiration.aware,
         is_valid |-> IsValidScore(score),
         score |-> Max2(0, score)]

DocumentTypes == {"passport", "drivers_license", "national_id", "other"}

DocInputs == {DocInputOf(document_type) : document_type \in DocumentTypes}

\* the instants of datetime.now(): before every expiry used, at midnight of
\* one and at noon of that day
NowValues == {20261103 * 100 + 12, 20300101 * 100, 20300101 * 100 + 12}

ExpirationDates ==
    {"2030-01-01", "2028-05-15", "2020-06-30", "01/01/2030",
     "2030-01-01T00:00:00+00:00"}

\* extracted data holding the given fields and, if any, the expiration date
DataOf(document_type, fields, dates) ==
    [f \in fields \cup {"document_type"} \cup
           {"expiration_date" : d \in dates} |->
        IF f = "document_type" THEN document_type
        ELSE IF f = "expiration_date" THEN CHOOSE d \in dates : TRUE
        ELSE "value"]

\* what extract_document_data returns for the type; it raises ValueError for
\* a type other than the three supported
ExtractResults(document_type) ==
    IF document_type \notin {"passport", "drivers_license", "national_id"}
    THEN {}
    ELSE {DataOf(document_type, fields, dates) :
             fields \in SUBSET RequiredFields(document_type),
             dates \in {{}} \cup {{d} : d \in ExpirationDates}}

\* the result of the except branch of run
DocErrorResult ==
    [returned |-> TRUE, error |-> TRUE, success |-> FALSE,
     validity_score |-> 0, extracted_data |-> NoData]

\* extract_document_data returns; run calls check_document_validity
DocExtracted(data) ==
    /\ docPc = "extracting"
    /\ extractedData' = data
    /\ docPc' = "validating"
    /\ UNCHANGED <<exceptDoc, docInput, docNow, validityResult, docResult>>

\* check_document_validity returns, or raises into the except branch of run
DocValidated ==
    /\ docPc = "validating"
    /\ LET validity_result ==
               check_document_validity(docInput.document_type, extractedData,
                                       docNow)
       IN  IF validity_result.raised
           THEN /\ docPc' = "done"
                /\ docResult' = DocErrorResult
                /\ UNCHANGED validityResult
           ELSE /\ docPc' = "storing"
                /\ validityResult' =
                      [computed |-> TRUE, is_valid |-> validity_result.is_valid,
                       score |-> validity_result.score]
                /\ UNCHANGED docResult
    /\ UNCHANGED <<exceptDoc, docInput, docNow, extractedData>>

\* store_verification_evidence returns; run returns its result
DocStored ==
    /\ docPc = "storing"
    /\ docPc' = "done"
    /\ docResult' =
          [returned |-> TRUE, error |-> FALSE,
           success |-> validityResult.is_valid,
           validity_score |-> validityResult.score,
           extracted_data |-> extractedData]
    /\ UNCHANGED <<exceptDoc, docInput, docNow, extractedData, validityResult>>

\* an activity of run fails for good: the except branch
DocActivityFails ==
    /\ docPc \in {"extracting", "validating", "storing"}
    /\ docPc' = "done"
    /\ docResult' = DocErrorResult
    /\ UNCHANGED <<exceptDoc, docInput, docNow, extractedData, validityResult>>

NextDoc ==
    \/ \E data \in ExtractResults(docInput.document_type) : DocExtracted(data)
    \/ DocValidated
    \/ DocStored
    \/ DocActivityFails

InitDocSpec ==
    /\ SessionAtRest
    /\ InitAgg
    /\ InitTrust
    /\ InitDecay
    /\ InitCommunity
    /\ InitConf
    /\ InitInPerson
    /\ InitParallel
    /\ InitRetry
    /\ InitApi
    /\ InitStart
    /\ InitExtract
    /\ \E input \in DocInputs, now \in NowValues : DocStart(input, now)

SpecDoc == InitDocSpec /\ [][NextDoc]_vars

(***************************************************************************)
(* The three coordinators side by side, the document and the community     *)
(* coordinator as the children of ExampleParallelVerificationWorkflow.  A  *)
(* child whose run raises ends as "failed", and asyncio.gather raises in   *)
(* the parent.                                                             *)
(***************************************************************************)
ChildRaised == docPc = "failed" \/ communityPc = "failed"

\* doc_result, community_result = await asyncio.gather(doc_task,
\* community_task), and the rest of run
ParallelGathered ==
    /\ parentPc = "gathering"
    /\ IF ChildRaised
       THEN /\ parentPc' = "failed"
            /\ UNCHANGED parentResult
       ELSE /\ docPc = "done"
            /\ communityPc = "done"
            /\ parentPc' = "done"
            /\ parentResult' =
                  [returned |-> TRUE,
                   success |-> docResult.success /\ communityResult.success,
                   document_success |-> docResult.success,
                   community_success |-> communityResult.success]
    /\ UNCHANGED <<exceptParallel>>

\* the data extracted from the passport of the parent's document child: the
\* mock data, and the same with an expiry date that carries a UTC offset
ParallelData ==
    {DataOf("passport", RequiredFields("passport"), {d}) :
        d \in {"2030-01-01", "2030-01-01T00:00:00+00:00"}}

NextCoordinators ==
    \/ \E data \in ParallelData : DocExtracted(data)
    \/ DocValidated
    \/ DocStored
    \/ DocActivityFails
    \/ \E approved \in BOOLEAN : validator_response(1, approved)
    \/ CommunityRequested
    \/ CommunityActivityFails
    \/ CommunityWaitDone
    \/ CommunityTimeout
    \/ CommunityAggregated
    \/ CommunityStored
    \/ verification_completed(1001, "2025-11-01")
    \/ \E available_verifiers \in VerifierLists :
          InPersonFound(available_verifiers)
    \/ InPersonActivityFails
    \/ InPersonScheduled
    \/ InPersonWaitDone
    \/ InPersonTimeout
    \/ InPersonStored
    \/ ParallelGathered

InitCoordinatorsSpec ==
    /\ SessionAtRest
    /\ InitAgg
    /\ InitTrust
    /\ InitDecay
    /\ InitConf
    /\ InitParallel
    /\ InitRetry
    /\ InitApi
    /\ InitStart
    /\ InitExtract
    /\ DocStart(DocInputOf("passport"), 20261103 * 100 + 12)
    /\ CommunityStart(CommunityInputOf(1, 2))
    /\ InPersonStart(InPersonInputOf(<<"2025-11-01T10:00:00">>))

SpecCoordinators == InitCoordinatorsSpec /\ [][NextCoordinators]_vars

(***************************************************************************)
(* One activity call under its RetryPolicy.  An exception raised by an     *)
(* activity reaches the engine as an application failure of the type of    *)
(* the exception, retryable unless the type is listed in                   *)
(* non_retryable_error_types of the policy; the engine runs a further      *)
(* attempt after a retryable failure until maximum_attempts have been      *)
(* made.                                                                   *)
(***************************************************************************)
\* the ValueError the activity raises on its arguments, if any:
\* record_verification_method for a user not found,
\* update_user_verification_score for a score out of range or a user not
\* found, extract_document_data for an unsupported document type
RaisesValueError(site, args) ==
    CASE site.activity = "record_verification_method" -> ~args.user_found
      [] site.activity = "update_user_verification_score" ->
            ~args.score_in_range \/ ~args.user_found
      [] site.activity = "extract_document_data" -> ~args.type_supported

\* whether the engine retries a failure of this type
Retryable(error_type, site) ==
    error_type \notin site.non_retryable_error_types

\* the failures of the infrastructure an attempt can meet
TransientErrors == {"ConnectionError", "TimeoutError"}

\* an attempt ends with an exception of the given type
AttemptRaises(error_type) ==
    /\ attempts' = attempts + 1
    /\ attemptLog' = Append(attemptLog, error_type)
    /\ callPc' =
          IF Retryable(error_type, callSite)
             /\ attempts + 1 < callSite.maximum_attempts
          THEN "scheduled"
          ELSE "failed"
    /\ UNCHANGED <<exceptRetry, callSite, callArgs>>

\* an attempt runs into the ValueError of the activity
AttemptDomainFailure ==
    /\ callPc = "scheduled"
    /\ RaisesValueError(callSite, callArgs)
    /\ AttemptRaises("ValueError")

\* an attempt meets a failure of the infrastructure (before the activity
\* could raise or return)
AttemptTransientFailure(error_type) ==
    /\ callPc = "scheduled"
    /\ AttemptRaises(error_type)

\* an attempt returns
AttemptReturns ==
    /\ callPc = "scheduled"
    /\ ~RaisesValueError(callSite, callArgs)
    /\ attempts' = attempts + 1
    /\ callPc' = "completed"
    /\ UNCHANGED <<exceptRetry, callSite, callArgs, attemptLog>>

NextRetry ==
    \/ AttemptDomainFailure
    \/ \E error_type \in TransientErrors : AttemptTransientFailure(error_type)
    \/ AttemptReturns

InitRetrySpec ==
    /\ SessionAtRest
    /\ InitAgg
    /\ InitTrust
    /\ InitDecay
    /\ InitCommunity
    /\ InitConf
    /\ InitInPerson
    /\ InitDoc
    /\ InitParallel
    /\ InitApi
    /\ InitStart
    /\ InitExtract
    /\ \E site \in CallSites, user_found, score_in_range, type_supported
              \in BOOLEAN :
          CallStart(site,
                    CallArgsOf(user_found, score_in_range, type_supported))

SpecRetry == InitRetrySpec /\ [][NextRetry]_vars

(***************************************************************************)
(* start_verification and cancel_verification of the API, for one user.    *)
(* The requests run concurrently; a request is interleaved with the others *)
(* at its awaits.  The engine refuses to start a workflow under an id that *)
(* an open execution holds.                                                *)
(***************************************************************************)
\* workflow_id = f"verification-{user.id}"
WorkflowIdOf(user_id) == "verification-1"

OpenRuns == {i \in DOMAIN runs : runs[i] # "closed"}

\* faulty variant of IdInUse: an engine that starts a second execution
IdNeverInUse == FALSE

\* temporal.start_workflow(..., id=workflow_id) raises
\* WorkflowAlreadyStartedError: an execution with this id is open
IdInUse == OpenRuns # {}

Respond(r, response) ==
    requests' = [requests EXCEPT ![r].pc = "done", ![r].response = response]

\* start_verification up to the test of user.verification_workflow_id
StartBegin(r) ==
    /\ requests[r].pc = "idle"
    /\ requests' =
          [requests EXCEPT
             ![r] = [kind |-> "start",
                     pc |-> IF storedWorkflowId # "none"
                            THEN "querying" ELSE "starting",
                     read |-> storedWorkflowId,
                     response |-> "none"]]
    /\ UNCHANGED <<exceptApi, storedWorkflowId, runs>>

\* the three queries of the existing workflow succeed: the response tells a
\* running session (a closed execution answers queries too)
StartQueryOk(r) ==
    /\ requests[r].pc = "querying"
    /\ runs # <<>>
    /\ Respond(r, "running")
    /\ UNCHANGED <<exceptApi, storedWorkflowId, runs>>

\* a query raises: except Exception: pass
StartQueryFails(r) ==
    /\ requests[r].pc = "querying"
    /\ requests' = [requests EXCEPT ![r].pc = "starting"]
    /\ UNCHANGED <<exceptApi, storedWorkflowId, runs>>

\* temporal.start_workflow
StartWorkflow(r) ==
    /\ requests[r].pc = "starting"
    /\ IF IdInUse
       THEN /\ Respond(r, "500")
            /\ UNCHANGED runs
       ELSE /\ runs' = Append(runs, "running")
            /\ requests' = [requests EXCEPT ![r].pc = "committing"]
    /\ UNCHANGED <<exceptApi, storedWorkflowId>>

\* user.verification_workflow_id = workflow_id; await db.commit()
StartCommit(r) ==
    /\ requests[r].pc = "committing"
    /\ storedWorkflowId' = WorkflowIdOf(1)
    /\ Respond(r, "created")
    /\ UNCHANGED <<exceptApi, runs>>

\* cancel_verification up to the test of user.verification_workflow_id
CancelBegin(r) ==
    /\ requests[r].pc = "idle"
    /\ requests' =
          [requests EXCEPT
             ![r] = [kind |-> "cancel",
                     pc |-> IF storedWorkflowId # "none"
                            THEN "signalling" ELSE "done",
                     read |-> storedWorkflowId,
                     response |-> IF storedWorkflowId # "none"
                                  THEN "none" ELSE "400"]]
    /\ UNCHANGED <<exceptApi, storedWorkflowId, runs>>

\* handle.signal("cancel_verification"): delivered to the open execution,
\* which leaves its wait if it is in it; raises if there is none
CancelSignal(r) ==
    /\ requests[r].pc = "signalling"
    /\ IF OpenRuns = {}
       THEN /\ Respond(r, "500")
            /\ UNCHANGED runs
       ELSE /\ runs' = [i \in DOMAIN runs |->
                           IF runs[i] = "running" THEN "cancelling"
                           ELSE runs[i]]
            /\ requests' = [requests EXCEPT ![r].pc = "clearing"]
    /\ UNCHANGED <<exceptApi, storedWorkflowId>>

\* user.verification_workflow_id = None; await db.commit()
CancelCommit(r) ==
    /\ requests[r].pc = "clearing"
    /\ storedWorkflowId' = "none"
    /\ Respond(r, "cancelled")
    /\ UNCHANGED <<exceptApi, runs>>

\* the wait of a session ends by the target reached or by the timeout
SessionLeavesWait(i) ==
    /\ runs[i] = "running"
    /\ runs' = [runs EXCEPT ![i] = "finishing"]
    /\ UNCHANGED <<exceptApi, storedWorkflowId, requests>>

\* run of a session returns
SessionCloses(i) ==
    /\ runs[i] \in {"cancelling", "finishing"}
    /\ runs' = [runs EXCEPT ![i] = "closed"]
    /\ UNCHANGED <<exceptApi, storedWorkflowId, requests>>

NextApi ==
    \/ \E r \in Requests : StartBegin(r)
    \/ \E r \in Requests : StartQueryOk(r)
    \/ \E r \in Requests : StartQueryFails(r)
    \/ \E r \in Requests : StartWorkflow(r)
    \/ \E r \in Requests : StartCommit(r)
    \/ \E r \in Requests : CancelBegin(r)
    \/ \E r \in Requests : CancelSignal(r)
    \/ \E r \in Requests : CancelCommit(r)
    \/ \E i \in DOMAIN runs : SessionLeavesWait(i)
    \/ \E i \in DOMAIN runs : SessionCloses(i)

InitApiSpec ==
    /\ SessionAtRest
    /\ InitAgg
    /\ InitSub

SpecApi == InitApiSpec /\ [][NextApi]_vars

(***************************************************************************)
(* The target of a session from the request to the session: the field      *)
(* constraints of StartVerificationRequest, then run of the workflow.      *)
(***************************************************************************)
\* faulty variant of TargetFieldValid: a field without constraints
TargetFieldUnchecked(target_score) == TRUE

\* target_score: float = Field(default=50.0, ge=0, le=100)
TargetFieldValid(target_score) == 0 <= target_score /\ target_score <= Pts(100)

\* the targets requested, in steps of half a point from -10 to 110
RequestTargets == {half * (Pts(1) \div 2) : half \in -20..220}

\* the request body is validated against StartVerificationRequest
StartValidate ==
    /\ startPc = "received"
    /\ startPc' = IF TargetFieldValid(startRequest.target_score)
                  THEN "validated" ELSE "rejected"
    /\ UNCHANGED <<exceptStart, startRequest, heldTarget>>

\* start_verification builds VerificationInput(target_score=
\* request.target_score) and starts the workflow; run sets
\* self._target_score = min(input.target_score, 100.0)
StartSession ==
    /\ startPc = "validated"
    /\ heldTarget' = CapTarget(startRequest.target_score)
    /\ startPc' = "started"
    /\ UNCHANGED <<exceptStart, startRequest>>

NextStart ==
    \/ StartValidate
    \/ StartSession

InitStartSpec ==
    /\ SessionAtRest
    /\ InitAgg
    /\ InitTrust
    /\ InitDecay
    /\ InitCommunity
    /\ InitConf
    /\ InitInPerson
    /\ InitDoc
    /\ InitParallel
    /\ InitRetry
    /\ InitApi
    /\ InitExtract
    /\ \E target_score \in RequestTargets :
          StartReceived(StartRequestOf(target_score))

SpecStart == InitStartSpec /\ [][NextStart]_vars

(***************************************************************************)
(* The session with signals sent at any time: a handler is started while   *)
(* the handlers of earlier signals are waiting on their activities. No     *)
(* cancellation, no deadline, no failing activity.                         *)
(***************************************************************************)
NextConcurrent ==
    \/ \E sub \in Submissions : complete_verification_method(sub)
    \/ update_trust_network
    \/ \E c \in Coros : TrustActivity(c)
    \/ \E c \in Coros : RecordActivity(c)
    \/ \E c \in Coros : AfterRecord(c)
    \/ \E c \in Coros : AfterCalc(c)
    \/ \E c \in Coros : AfterUpdate(c)
    \/ WaitEnd
    \/ FinalCalcDone
    \/ FinalUpdate

InitConcurrent ==
    /\ InitSession
    /\ env = [serial |-> FALSE, budget |-> MaxSignals]
    /\ InitAgg
    /\ InitSub

SpecConcurrent == InitConcurrent /\ [][NextConcurrent]_vars

(***************************************************************************)
(* The decay chain with attempts of decay_reputation_score that commit     *)
(* their update and are not acknowledged (the worker dies, or the          *)
(* start_to_close_timeout passes, after session.commit()): the engine runs *)
(* a further attempt under the RetryPolicy of the call.                    *)
(***************************************************************************)
\* RetryPolicy(maximum_attempts=5) of the call of decay_reputation_score
DecayMaximumAttempts == 5

\* an attempt of decay_reputation_score updates the row and is lost before
\* it is acknowledged; a further attempt is scheduled
DecayAttemptLost ==
    /\ decayPc = "activity"
    /\ userFound
    /\ lostAcks < MaxLostAcks
    /\ cycleWrites + 1 < DecayMaximumAttempts
    /\ reputationScore' = DecayScore(reputationScore)
    /\ decays' = decays + 1
    /\ cycleWrites' = cycleWrites + 1
    /\ lostAcks' = lostAcks + 1
    /\ UNCHANGED <<exceptDecay, decayInput, decayCancelled, currentReputation,
                   userFound, decayPc, decayResult, decayFirst, decayCycles,
                   decayCalls, cancelSeen>>

NextDecayRetry ==
    \/ cancel_decay
    \/ DecayWake
    \/ DecaySleepOver
    \/ DecayActivityDone
    \/ DecayActivityFails
    \/ DecayAttemptLost

SpecDecayRetry == InitDecaySpec /\ [][NextDecayRetry]_vars

(***************************************************************************)
(* The same method_type submitted again: the first signal carries one of   *)
(* FirstWeights, every later one one of LaterWeights. The client either    *)
(* waits for the handler of a signal to end before it sends the next one,  *)
(* or does not. No cancellation, no deadline, no failing activity.         *)
(***************************************************************************)
FirstWeights == {Pts(20), Pts(30)}
LaterWeights == {Pts(5), Pts(25)}

SubmitAgain ==
    \E weight \in (IF signals = 0 THEN FirstWeights ELSE LaterWeights) :
        complete_verification_method(
            [method |-> "community", weight |-> weight])

NextResubmit ==
    \/ SubmitAgain
    \/ \E c \in Coros : TrustActivity(c)
    \/ \E c \in Coros : RecordActivity(c)
    \/ \E c \in Coros : AfterRecord(c)
    \/ \E c \in Coros : AfterCalc(c)
    \/ \E c \in Coros : AfterUpdate(c)
    \/ WaitEnd
    \/ FinalCalcDone
    \/ FinalUpdate

InitResubmit ==
    /\ InitSession
    /\ \E serial \in BOOLEAN : env = [serial |-> serial, budget |-> MaxSignals]
    /\ InitAgg
    /\ InitSub

SpecResubmit == InitResubmit /\ [][NextResubmit]_vars


(***************************************************************************)
(* record_verification_method as the two statements it runs on the         *)
(* database, the SELECT of the user's row and the UPDATE at commit, with    *)
(* the executions of the activity for different signals overlapping. The   *)
(* first signal submits one of FirstSubmissions, every later one one of    *)
(* LaterSubmissions, whose method types differ from the first ones.        *)
(***************************************************************************)
FirstSubmissions ==
    { [method |-> "document", weight |-> Pts(25)],
      [method |-> "activity", weight |-> Pts(15)] }

LaterSubmissions ==
    { [method |-> "in_person", weight |-> Pts(30)],
      [method |-> "trust_network", weight |-> Pts(10)] }

SubmitOther ==
    \E sub \in (IF signals = 0 THEN FirstSubmissions ELSE LaterSubmissions) :
        complete_verification_method(sub)

\* result = await session.execute(select(User)...); json.loads(...)
RecordSelect(c) ==
    /\ Live
    /\ co[c].pc = "record"
    /\ co' = [co EXCEPT ![c].pc = "selected", ![c].res = dbMethods]
    /\ UNCHANGED <<aggVars, subVars, target, verification_status, dbMethods, dbScore, methods, currentScore, complete, cancelled,
                   timeoutReached, runPc, status, finalScore, result, env,
                   signals, finalTrustCalls, finalCalcCalls, finalUpdateCalls,
                   completeNotifs, anyHandled, lateSignal, atEnd>>

\* the list that was read is changed, written back and returned
RecordCommit(c) ==
    /\ Live
    /\ co[c].pc = "selected"
    /\ dbMethods' = UpsertMethod(co[c].res,
                        [method |-> co[c].method, weight |-> co[c].weight])
    /\ co' = [co EXCEPT ![c].pc = "recorded", ![c].res = dbMethods']
    /\ UNCHANGED <<aggVars, subVars, target, verification_status, dbScore, methods, currentScore, complete, cancelled,
                   timeoutReached, runPc, status, finalScore, result, env,
                   signals, finalTrustCalls, finalCalcCalls, finalUpdateCalls,
                   completeNotifs, anyHandled, lateSignal, atEnd>>

NextOverlap ==
    \/ SubmitOther
    \/ \E c \in Coros : TrustActivity(c)
    \/ \E c \in Coros : RecordSelect(c)
    \/ \E c \in Coros : RecordCommit(c)
    \/ \E c \in Coros : AfterRecord(c)
    \/ \E c \in Coros : AfterCalc(c)
    \/ \E c \in Coros : AfterUpdate(c)
    \/ WaitEnd
    \/ FinalCalcDone
    \/ FinalUpdate

InitOverlap ==
    /\ InitSession
    /\ \E serial \in BOOLEAN : env = [serial |-> serial, budget |-> MaxSignals]
    /\ InitAgg
    /\ InitSub

SpecOverlap == InitOverlap /\ [][NextOverlap]_vars


(***************************************************************************)
(* The deadline of the wait and a terminal signal in one workflow task.    *)
(* A cancel signal is applied before the timer: its handler sets the flag  *)
(* and the wait returns (WaitEnd). A submission sets the event only when   *)
(* the last activity of its handler has resolved; when that resolution and *)
(* the timer come in one task, the handler and the timeout of the wait are *)
(* both run before the condition is looked at again, and the wait raises   *)
(* asyncio.TimeoutError with the event set.                                *)
(***************************************************************************)
TimeoutTie ==
    /\ runPc = "waiting"
    /\ complete
    /\ ~cancelled
    /\ timeoutReached' = TRUE
    /\ EndWait(TimeoutStatus)
    /\ UNCHANGED <<aggVars, subVars, target, verification_status, dbMethods, dbScore, methods, currentScore, complete,
                   cancelled, result, env, signals, finalUpdateCalls,
                   completeNotifs, anyHandled, lateSignal>>

NextTie ==
    \/ \E sub \in Submissions : complete_verification_method(sub)
    \/ cancel_verification
    \/ \E c \in Coros : TrustActivity(c)
    \/ \E c \in Coros : RecordActivity(c)
    \/ \E c \in Coros : AfterRecord(c)
    \/ \E c \in Coros : AfterCalc(c)
    \/ \E c \in Coros : AfterUpdate(c)
    \/ WaitEnd
    \/ Timeout
    \/ TimeoutTie
    \/ FinalCalcDone
    \/ FinalUpdate

SpecTie == Init /\ [][NextTie]_vars


(***************************************************************************)
(* extract_document_data, attempt by attempt. A heartbeat is handed to the *)
(* worker, which delivers it to the engine later; an attempt ends by the   *)
(* return of the data, by an exception, or by a crash or stall of the      *)
(* worker, which loses the heartbeat not yet delivered.                    *)
(***************************************************************************)
\* RetryPolicy(maximum_attempts=3) of the call in DocumentVerificationWorkflow
ExtractMaximumAttempts == 3

\* total_pages = 3 if document_type == "passport" else 2
TotalPages(document_type) == IF document_type = "passport" THEN 3 ELSE 2

\* faulty variant of StartPage: the attempt resumes after the reported page
StartPageAfter(heartbeat_details) ==
    IF heartbeat_details # <<>> THEN heartbeat_details[1] + 1 ELSE 0

\* start_page = 0; if heartbeat_details: start_page = heartbeat_details[0]
StartPage(heartbeat_details) ==
    IF heartbeat_details # <<>> THEN heartbeat_details[1] ELSE 0

\* the position of the loop for page in range(start_page, total_pages)
LoopAt(page) ==
    IF page < TotalPages(extractType) THEN "heartbeat" ELSE "finishing"

\* an attempt starts: it reads the heartbeat details and enters the loop
ExtractBegin ==
    /\ extractPc = "starting"
    /\ detailsAtStart' = serverDetails
    /\ startPage' = StartPage(serverDetails)
    /\ extractPage' = startPage'
    /\ extractPc' = LoopAt(startPage')
    /\ reportedPage' = 0 - 1
    /\ UNCHANGED <<exceptExtract, extractType, extractAttempt, serverDetails,
                   pendingDetails, pagesDone>>

\* activity.heartbeat(page, progress)
ExtractHeartbeat ==
    /\ extractPc = "heartbeat"
    /\ pendingDetails' = <<extractPage>>
    /\ reportedPage' = extractPage
    /\ extractPc' = "processing"
    /\ UNCHANGED <<exceptExtract, extractType, extractAttempt, extractPage,
                   startPage, detailsAtStart, serverDetails, pagesDone>>

\* the worker delivers the latest heartbeat to the engine
HeartbeatDelivered ==
    /\ extractPc \in {"heartbeat", "processing", "finishing"}
    /\ pendingDetails # <<>>
    /\ serverDetails' = pendingDetails
    /\ pendingDetails' = <<>>
    /\ UNCHANGED <<exceptExtract, extractType, extractAttempt, extractPc,
                   extractPage, startPage, detailsAtStart, reportedPage,
                   pagesDone>>

\* await asyncio.sleep(1.5) returns: the page is processed
ExtractPageDone ==
    /\ extractPc = "processing"
    /\ pagesDone' = pagesDone \cup {extractPage}
    /\ extractPage' = extractPage + 1
    /\ extractPc' = LoopAt(extractPage + 1)
    /\ UNCHANGED <<exceptExtract, extractType, extractAttempt, startPage,
                   detailsAtStart, serverDetails, pendingDetails,
                   reportedPage>>

\* the attempt has failed: the engine schedules the next one, or gives up
AttemptFailed ==
    /\ IF extractAttempt < ExtractMaximumAttempts
       THEN /\ extractAttempt' = extractAttempt + 1
            /\ extractPc' = "starting"
       ELSE /\ extractPc' = "failed"
            /\ UNCHANGED extractAttempt
    /\ UNCHANGED <<extractType, extractPage, startPage, detailsAtStart,
                   reportedPage, pagesDone>>

\* return extracted_data
ExtractReturns ==
    /\ extractPc = "finishing"
    /\ extractType \in {"passport", "drivers_license", "national_id"}
    /\ extractPc' = "returned"
    /\ UNCHANGED <<exceptExtract, extractType, extractAttempt, extractPage,
                   startPage, detailsAtStart, serverDetails, pendingDetails,
                   reportedPage, pagesDone>>

\* raise ValueError(f"Unsupported document type: {document_type}"); the
\* worker reports the failure with or without the heartbeat it still holds
ExtractRaises ==
    /\ extractPc = "finishing"
    /\ extractType \notin {"passport", "drivers_license", "national_id"}
    /\ AttemptFailed
    /\ \/ /\ pendingDetails # <<>>
          /\ serverDetails' = pendingDetails
       \/ UNCHANGED serverDetails
    /\ pendingDetails' = <<>>
    /\ UNCHANGED exceptExtract

\* the worker crashes or stalls during the attempt: the engine sees the
\* heartbeat_timeout or the start_to_close_timeout pass
ExtractCrash ==
    /\ extractPc \in {"heartbeat", "processing", "finishing"}
    /\ AttemptFailed
    /\ pendingDetails' = <<>>
    /\ UNCHANGED <<exceptExtract, serverDetails>>

NextExtract ==
    \/ ExtractBegin
    \/ ExtractHeartbeat
    \/ HeartbeatDelivered
    \/ ExtractPageDone
    \/ ExtractReturns
    \/ ExtractRaises
    \/ ExtractCrash

InitExtractSpec ==
    /\ SessionAtRest
    /\ InitAgg
    /\ InitTrust
    /\ InitDecay
    /\ InitCommunity
    /\ InitConf
    /\ InitInPerson
    /\ InitDoc
    /\ InitParallel
    /\ InitRetry
    /\ InitApi
    /\ InitStart
    /\ \E document_type \in DocumentTypes : ExtractScheduled(document_type)

SpecExtract == InitExtractSpec /\ [][NextExtract]_vars


(***************************************************************************)
(* Properties.                                                             *)
(***************************************************************************)
Rec(m, w) == [method |-> m, weight |-> w]

ScenarioThree ==
    <<Rec("community", Pts(20)), Rec("activity", Pts(15)),
      Rec("trust_network", Pts(10))>>

ScenarioFour == Append(ScenarioThree, Rec("document", Pts(25)))

NoDuplicateType(ms) ==
    \A i, j \in 1..Len(ms) : GetMethod(ms[i]) = GetMethod(ms[j]) => i = j

\* C1: with signals handled one after another, no cancel and no deadline
\* expiry, whenever a submission has been handled and the session is still
\* waiting, the session is marked complete exactly when its score has reached
\* the target; the wait ends only with status completed; with target 60 the
\* list community 20, activity 15, trust_network 10 gives score 45, progress
\* 75% and a session still waiting, and with document 25 added the score is
\* 70 and the session is complete.
C1_RunningUntilTarget ==
    /\ (runPc = "waiting" /\ ~HandlerBusy /\ anyHandled)
          => (complete <=> currentScore >= target)
    /\ runPc # "waiting" => (complete /\ status = "completed")
    /\ runPc = "done" => result.status = "completed"
    /\ (target = Pts(60) /\ runPc = "waiting" /\ ~Busy
           /\ methods = ScenarioThree)
          => /\ currentScore = Pts(45)
             /\ progress_percentage = Pts(75)
             /\ ~complete
    /\ (target = Pts(60) /\ runPc = "waiting" /\ ~Busy
           /\ methods = ScenarioFour)
          => (currentScore = Pts(70) /\ complete)

C1_Witness ==
    /\ target = Pts(60)
    /\ runPc = "done"
    /\ result.status = "completed"
    /\ result.final_score = Pts(70)
    /\ result.methods_completed = ScenarioFour

\* C2: the persisted list and the session's list never hold two records of
\* one method type; a record activity for a type that is present replaces
\* that record where it stands and leaves every other record and the length
\* as they were, and for a new type it appends exactly one record.
C2_RecordStep ==
    \A c \in Coros :
        (co[c].pc = "record" /\ co'[c].pc = "recorded")
        => LET m == co[c].method
               at == {i \in 1..Len(dbMethods) : dbMethods[i].method = m}
           IN  IF at # {}
               THEN /\ Len(dbMethods') = Len(dbMethods)
                    /\ \A i \in 1..Len(dbMethods) :
                          IF i \in at
                          THEN dbMethods'[i] = Rec(m, co[c].weight)
                          ELSE dbMethods'[i] = dbMethods[i]
               ELSE dbMethods' = Append(dbMethods, Rec(m, co[c].weight))

C2_OneRecordPerType ==
    /\ [](NoDuplicateType(dbMethods) /\ NoDuplicateType(methods))
    /\ [][C2_RecordStep]_vars

C2_Witness ==
    \E c \in Handlers :
        /\ co[c].pc = "calc"
        /\ co[c].method = "community"
        /\ methods = <<Rec("community", Pts(5)), Rec("activity", Pts(15))>>
        /\ signals = 4

\* What the final result lists when no signal arrives after the wait ended
\* with no coroutine in progress: the session's list as it was then, or the
\* persisted list with the trust_network record of the final check.
WithoutTrust(ms) == SelectSeq(ms, LAMBDA r : GetMethod(r) # "trust_network")

ResultAsAtEnd ==
    WithoutTrust(result.methods_completed)
        \in {WithoutTrust(atEnd.methods), WithoutTrust(atEnd.db)}

ResultFixedWithoutLateSignal ==
    (runPc = "done" /\ atEnd.idle /\ ~lateSignal) => ResultAsAtEnd

\* C3: the final result is immutable once the session is terminal: when the
\* wait ended with no handler in progress, the method list of the final result
\* is the one the session had then (the final trust_network record apart),
\* whatever signals arrive afterwards, and its status is the one set when the
\* wait ended.
C3_ResultImmutable ==
    (runPc = "done" /\ atEnd.idle)
        => (ResultAsAtEnd /\ result.status = status)

\* C4: once a cancel has been handled while run is waiting, the deadline
\* cannot expire and no further signal is handled before the wait ends, the
\* wait ends with status cancelled whatever the score, and the status set at
\* the end of the wait is the one the final result carries.
C4_CancelStep ==
    (runPc = "waiting" /\ cancelled)
        => /\ ~timeoutReached'
           /\ signals' = signals
           /\ runPc' \in {"waiting", "failed"} \/ status' = "cancelled"

C4_CancelEndsWait ==
    /\ [][C4_CancelStep]_vars
    /\ [][status # "none" => status' = status]_vars
    /\ [](runPc = "done" => result.status = status)

C4_Witness ==
    /\ runPc = "done"
    /\ result.status = "cancelled"
    /\ target = Pts(60)
    /\ result.final_score >= target

C7_NotifiedOnce ==
    (runPc = "done" /\ ~(finalUpdateCalls = 1 /\ completeNotifs = 0))
        => completeNotifs =
              (IF result.status \in {"completed", "timeout"} THEN 1 ELSE 0)

WeightsInRange(ms) ==
    \A i \in 1..Len(ms) : 0 <= GetWeight(ms[i]) /\ GetWeight(ms[i]) <= Pts(100)

CommunityCount(ms) ==
    Cardinality({i \in 1..Len(ms) : GetMethod(ms[i]) = "community"})

\* C8: for a list whose weights all lie in [0,100] the score returned lies
\* in [0,100].
C8_ScoreInRange ==
    (aggPhase # "build" /\ WeightsInRange(aggList))
        => (0 <= aggScore /\ aggScore <= Pts(100))

C8_Witness ==
    /\ aggPhase = "scored"
    /\ WeightsInRange(aggList)
    /\ SumWeights(aggList) > Pts(100)
    /\ CommunityCount(aggList) = 3
    /\ aggScore = Pts(98)

\* the sum capped at 100, less 2 for every community record beyond the
\* second, not below 0
CappedLessPenalty(ms) ==
    LET capped == Min2(SumWeights(ms), Pts(100))
        c == CommunityCount(ms)
    IN  IF c > 2 THEN Max2(capped - Pts(2) * (c - 2), 0) ELSE capped

\* C9 as stated: the score returned equals the capped sum less the penalty.
C9_Unrounded ==
    aggPhase = "scored" => aggScore = CappedLessPenalty(aggList)

\* C9 as amended: the score returned equals the capped sum less the penalty,
\* rounded to two decimals; the cap is applied before the penalty.
C9_CapThenPenalty ==
    aggPhase = "scored" => aggScore = Round2(CappedLessPenalty(aggList))

C9_Witness ==
    /\ aggPhase = "scored"
    /\ CommunityCount(aggList) = 5
    /\ SumWeights(aggList) = Pts(150)
    /\ aggScore = Pts(94)

\* C10: raising one weight of a list that holds at most two community
\* records does not lower the score.
C10_Monotone ==
    (aggPhase = "raised" /\ CommunityCount(aggList) <= 2)
        => aggScore >= aggBase

C10_Witness ==
    /\ aggPhase = "raised"
    /\ CommunityCount(aggList) = 2
    /\ aggScore > aggBase
    /\ aggScore < Pts(100)

\* the connections whose trusted user has a score above 50
AboveFloor(net) ==
    {i \in 1..Len(net) : "score" \in DOMAIN net[i] /\ net[i].score > Pts(50)}

RECURSIVE SumContributions(_, _)
SumContributions(net, idx) ==
    IF idx = {} THEN 0
    ELSE LET i == CHOOSE j \in idx : TRUE
         IN  GetStrength(net[i]) * net[i].score * 15
               + SumContributions(net, idx \ {i})

\* C11: the trust strength is 0 when no connection's trusted user has a score
\* above 50, it never exceeds 15, and it is the sum of strength x score/100
\* x 15 over the connections whose trusted user's score is above 50, capped
\* at 15 and rounded to two decimals.
C11_TrustStrength ==
    trustPhase = "scored"
        => /\ AboveFloor(trustNet) = {} => trustScore = 0
           /\ trustScore <= Pts(15)
           /\ trustScore >= 0
           /\ trustScore =
                 RoundFine2(Min2(SumContributions(trustNet, AboveFloor(trustNet)),
                                 FinePts(15)))

C11_Witness ==
    /\ trustPhase = "scored"
    /\ Len(trustNet) = 3
    /\ Cardinality(AboveFloor(trustNet)) = 2
    /\ \E i \in 1..3 : "score" \in DOMAIN trustNet[i] /\ trustNet[i].score = Pts(50)
    /\ SumContributions(trustNet, AboveFloor(trustNet)) > FinePts(15)
    /\ trustScore = Pts(15)

\* C12: every decay activity that updates the row replaces the score r by
\* 0.95 r, which is neither above r nor below 0; starting from 100 the score
\* is 95.0 after one decay and 90.25 after two.
C12_DecayStep ==
    decays' = decays + 1
        => /\ reputationScore % 20 = 0
           /\ reputationScore' = 19 * (reputationScore \div 20)
           /\ reputationScore' <= reputationScore
           /\ reputationScore' >= 0
           /\ currentReputation' \in {reputationScore', 0}

C12_Decay ==
    /\ [][C12_DecayStep]_vars
    /\ [][decays' = decays => reputationScore' = reputationScore]_vars
    /\ []((decayFirst.score = RepPts(100) /\ decays = 1)
             => 4 * reputationScore = RepPts(4 * 95))
    /\ []((decayFirst.score = RepPts(100) /\ decays = 2)
             => 4 * reputationScore = RepPts(361))

C12_Witness ==
    /\ decayFirst.score = RepPts(100)
    /\ decays = 2
    /\ decayPc = "done"
    /\ decayResult.stopped_reason = "max_iterations"
    /\ 4 * decayResult.final_reputation = RepPts(361)

\* C13: when cancel_decay has been handled while run sleeps, the sleep does
\* not run to its end: the next step of run returns the result with
\* stopped_reason "cancelled" and iterations_completed equal to the
\* current_iteration of the execution's input, and decay_reputation_score is
\* not called in that cycle.
C13_CancelStep ==
    (decayPc = "sleeping" /\ decayCancelled /\ decayPc' # decayPc)
        => /\ decayPc' = "done"
           /\ decayResult'.stopped_reason = "cancelled"
           /\ decayResult'.iterations_completed = decayInput.current_iteration
           /\ decayCalls' = 0
           /\ decayCycles' = decayCycles
           /\ reputationScore' = reputationScore

C14_CycleStep ==
    decayCycles' = decayCycles + 1
        => \/ /\ decayPc' = "done"
              /\ decayResult'.stopped_reason = "max_iterations"
              /\ decayResult'.iterations_completed =
                    decayInput.current_iteration + 1
              /\ decayInput.current_iteration + 1 >= decayInput.max_iterations
           \/ /\ decayPc' = "sleeping"
              /\ decayInput.current_iteration + 1 < decayInput.max_iterations
              /\ decayInput' =
                    [decayInput EXCEPT !.current_iteration = @ + 1]
              /\ ~decayCancelled'
              /\ currentReputation' = 0

C14_Iterations ==
    /\ [][C14_CycleStep]_vars
    /\ []((/\ decayPc = "done"
           /\ decayResult.stopped_reason = "max_iterations"
           /\ decayFirst.input.current_iteration = 0
           /\ decayFirst.input.max_iterations >= 1)
             => /\ decayCycles = decayFirst.input.max_iterations
                /\ decayResult.iterations_completed = decayCycles)
    /\ <>(decayPc = "done")

C14_Witness ==
    /\ decayPc = "done"
    /\ decayResult.stopped_reason = "max_iterations"
    /\ decayFirst.input = DecayInputOf(3, 0)
    /\ decayCycles = 3
    /\ ~decayCancelled

CommunityReturned == communityPc = "done" /\ ~communityResult.error

\* C15 as stated: when the wait has ended without a timeout, the number of
\* approvals had reached required_validators.
C15_LeavesOnApprovals ==
    (waitEnd.ended /\ ~communityTimedOut)
        => waitEnd.approvals >= communityInput.required_validators

\* C15 as amended: run is past its wait only when the wait has ended, and
\* the wait ends either without a timeout, the number of responses
\* (approvals plus rejections) having reached required_validators, or by the
\* timeout, with fewer responses than that.
C15_LeavesOnResponses ==
    /\ (communityPc \in {"aggregating", "storing"} \/ CommunityReturned)
          => waitEnd.ended
    /\ communityTimedOut => waitEnd.ended
    /\ waitEnd.ended
          => IF communityTimedOut
             THEN waitEnd.approvals + waitEnd.rejections
                     < communityInput.required_validators
             ELSE waitEnd.approvals + waitEnd.rejections
                     >= communityInput.required_validators

C15_Witness ==
    /\ CommunityReturned
    /\ ~communityTimedOut
    /\ communityInput.required_validators = 3
    /\ waitEnd.approvals = 1
    /\ waitEnd.rejections = 2

\* success is decided on the approvals held when the wait ended
SuccessAsAtWaitEnd ==
    CommunityReturned
        => (communityResult.success
               <=> waitEnd.approvals >= communityInput.required_validators)

\* C16: a result that run returns from its normal path, the wait not having
\* timed out, has success = true exactly when the number of approvals it
\* reports is at least required_validators.
C16_SuccessIffApprovals ==
    (CommunityReturned /\ ~communityTimedOut)
        => (communityResult.success
               <=> communityResult.validators_approved
                      >= communityInput.required_validators)

NoRepeat(ids) == \A i, j \in 1..Len(ids) : ids[i] = ids[j] => i = j

\* C17: each validator_id appears at most once across the approvals and the
\* rejections.
C17_RespondsOnce == NoRepeat(approvals \o rejections)

C19_NoVerifier ==
    (findResult.returned /\ findResult.verifiers = <<>>)
        => /\ inPersonPc = "done"
           /\ inPersonResult.returned
           /\ ~inPersonResult.success
           /\ ~inPersonResult.appointment_scheduled
           /\ inPersonResult.error = "No available verifiers"
           /\ scheduleCalls = 0
           /\ ~appointmentScheduled

C19_Witness ==
    /\ findResult.returned
    /\ findResult.verifiers = <<>>
    /\ inPersonPc = "done"
    /\ verificationCompleted
    /\ ~inPersonResult.success
    /\ Len(inPersonInput.preferred_time_slots) = 2

\* the deductions the validated document calls for, stated from the data
MissingRequired ==
    \E f \in RequiredFields(docInput.document_type) :
        f \notin DOMAIN extractedData

HasExpiry == "expiration_date" \in DOMAIN extractedData

ExpiryUnparsable ==
    HasExpiry /\ ~fromisoformat(extractedData["expiration_date"]).ok

Expired ==
    /\ HasExpiry
    /\ fromisoformat(extractedData["expiration_date"]).ok
    /\ fromisoformat(extractedData["expiration_date"]).at < docNow

\* C20: the validity score is 100 minus 30 for a missing required field,
\* minus 50 for an expired document, minus 20 for an expiry date that cannot
\* be parsed; it lies in [0,100]; the document is valid exactly when the
\* score is at least 60; and the result run returns after storing the
\* evidence has success equal to that validity and the same score (a run
\* that ends in the except branch returns success = false).
C20_Validity ==
    /\ validityResult.computed =>
          /\ validityResult.score >= 0
          /\ validityResult.score <= Pts(100)
          /\ validityResult.score =
                Pts(100) - (IF MissingRequired THEN Pts(30) ELSE 0)
                         - (IF Expired THEN Pts(50) ELSE 0)
                         - (IF ExpiryUnparsable THEN Pts(20) ELSE 0)
          /\ validityResult.is_valid <=> validityResult.score >= Pts(60)
    /\ (docResult.returned /\ ~docResult.error) =>
          /\ validityResult.computed
          /\ docResult.success = validityResult.is_valid
          /\ docResult.validity_score = validityResult.score
    /\ (docResult.returned /\ docResult.error) => ~docResult.success

\* a passport with a missing field and a date that expires at this very
\* instant is stored as valid with 70 points
C20_Witness ==
    /\ docResult.returned
    /\ docResult.success
    /\ docResult.validity_score = Pts(70)
    /\ MissingRequired
    /\ HasExpiry
    /\ fromisoformat(extractedData["expiration_date"]).at = docNow

\* an expired document with a missing field is stored as invalid with 20
C20_WitnessInvalid ==
    /\ docResult.returned
    /\ ~docResult.error
    /\ ~docResult.success
    /\ docResult.validity_score = Pts(20)

\* check_document_validity raises for the data extracted
DocValidationRaises ==
    /\ docPc = "validating"
    /\ check_document_validity(docInput.document_type, extractedData,
                               docNow).raised

\* C21: a step in which an activity of a coordinator fails ends that
\* coordinator with a returned result that carries success = false and the
\* error; no coordinator ever ends as failed, and neither does the parent
\* that awaits the document and the community coordinator: when both have
\* ended it returns with the success of each.
C21_FailureStep ==
    /\ (DocActivityFails \/ (DocValidationRaises /\ DocValidated)) =>
          /\ docPc' = "done"
          /\ docResult'.returned /\ docResult'.error /\ ~docResult'.success
    /\ CommunityActivityFails =>
          /\ communityPc' = "done"
          /\ communityResult'.returned
          /\ communityResult'.error
          /\ ~communityResult'.success
    /\ InPersonActivityFails =>
          /\ inPersonPc' = "done"
          /\ inPersonResult'.returned
          /\ inPersonResult'.error # "none"
          /\ ~inPersonResult'.success
    /\ docPc' # "failed" /\ communityPc' # "failed" /\ inPersonPc' # "failed"
    /\ parentPc' # "failed"
    /\ (docPc = "done" /\ communityPc = "done" /\ parentPc = "gathering") =>
          ENABLED ParallelGathered
    /\ parentPc' = "done" =>
          /\ parentResult'.returned
          /\ parentResult'.document_success = docResult'.success
          /\ parentResult'.community_success = communityResult'.success

C21_FailureIsolated == [][C21_FailureStep]_vars

\* the document coordinator failed in an activity, the community
\* coordinator succeeded, and the parent returned with both results
C21_Witness ==
    /\ parentPc = "done"
    /\ docResult.error
    /\ ~parentResult.document_success
    /\ parentResult.community_success
    /\ inPersonResult.returned
    /\ inPersonResult.error = "ActivityError"

\* the attempts that raised the ValueError of the activity
DomainFailures ==
    Len(SelectSeq(attemptLog, LAMBDA e : e = "ValueError"))

\* C22: a domain validation failure is not retried: once an attempt has
\* raised the ValueError of the activity, no further attempt is made and
\* the call has failed.
C22_DomainNotRetried ==
    DomainFailures > 0 =>
        /\ callPc = "failed"
        /\ attemptLog[Len(attemptLog)] = "ValueError"
        /\ DomainFailures = 1

\* a transient failure is retried up to maximum_attempts of the call site
C22_TransientRetried ==
    /\ attempts <= callSite.maximum_attempts
    /\ (callPc = "failed") => (attempts = callSite.maximum_attempts)

C24_TargetInRange ==
    /\ startPc = "started" =>
          /\ heldTarget >= 0
          /\ heldTarget <= Pts(100)
          /\ heldTarget = startRequest.target_score
    /\ startPc = "rejected" =>
          (startRequest.target_score < 0
              \/ startRequest.target_score > Pts(100))

C24_Witness ==
    /\ startPc = "started"
    /\ heldTarget = Pts(100)

\* no coroutine is inside a handler or inside _record_method
Quiescent == ~Busy

\* C25: while run waits and no handler is in progress, after some handler
\* has run to its end, current_score equals calculate_verification_score of
\* the method list and equals the score persisted for the user.
C25_Serialized ==
    (runPc = "waiting" /\ Quiescent /\ anyHandled) =>
        /\ currentScore = calculate_verification_score(methods)
        /\ currentScore = dbScore

\* the same for signals sent one after the other
C25_SerializedIfSerial ==
    env.serial => C25_Serialized

\* C26: once a cancel_decay signal has been handled, the chain does not
\* sleep without the cancelled flag and runs no decay activity scheduled
\* after the signal, and if it has stopped, it has stopped as cancelled
\* (or, the signal having come during the activity of the last cycle, as
\* max_iterations).
C26_CancelNeverLost ==
    cancelSeen =>
        /\ decayPc \in {"sleeping", "activity"} => decayCancelled
        /\ decayPc = "done" =>
              \/ decayResult.stopped_reason = "cancelled"
              \/ /\ decayResult.stopped_reason = "max_iterations"
                 /\ decayCancelled

\* a cancel_decay signal handled during the sleep is not lost
C26_CancelInSleepKept ==
    [][(decayPc = "sleeping" /\ decayCancelled /\ decayPc' # decayPc)
          => decayResult'.stopped_reason = "cancelled"]_vars

\* C30: when the first cycle of a chain has ended and its decay activity
\* has updated the row, the reputation is the one the chain started with,
\* decayed once.
C30_DecayedOncePerCycle ==
    (decayCycles = 1 /\ decayPc \in {"sleeping", "done"} /\ cycleWrites >= 1)
        => reputationScore = DecayScore(decayFirst.score)

\* without lost acknowledgements the row is updated at most once for a cycle
C30_OneWriteIfAcknowledged == lostAcks = 0 => cycleWrites <= 1

\* C27: the result of a session that was not cancelled has the status
\* completed exactly if its final score is at least the target.
C27_StatusMatchesScore ==
    (runPc = "done" /\ ~cancelled) =>
        (result.status = "completed" <=> result.final_score >= target)

\* the records of method_type in a list
RecordsOf(ms, method_type) ==
    {i \in 1..Len(ms) : GetMethod(ms[i]) = method_type}

\* a session still in its wait has handled two or more submissions of the
\* method_type community, the first with one of FirstWeights
Resubmitted == signals >= 2 /\ ~Busy /\ runPc = "waiting"

\* C28: the same method_type submitted twice to a running session, with w1
\* and then with w2: once both signals are handled the session's list and
\* the persisted list hold a single record of that type, it carries w2, and
\* the session's score and the persisted score are the aggregate of that list.
C28_LatestWriteWins ==
    Resubmitted =>
        /\ \E i \in 1..Len(methods) :
              /\ RecordsOf(methods, "community") = {i}
              /\ methods[i].weight \in LaterWeights
        /\ \E i \in 1..Len(dbMethods) :
              /\ RecordsOf(dbMethods, "community") = {i}
              /\ dbMethods[i].weight \in LaterWeights
        /\ currentScore = calculate_verification_score(methods)
        /\ dbScore = calculate_verification_score(dbMethods)

\* it does hold when the second signal is sent after the first one's
\* handler has ended
C28_LatestWriteWinsIfSerial == env.serial => C28_LatestWriteWins

C28_SerialWitness == env.serial /\ Resubmitted


\* an activity of the _record_method call made by the handler
\* complete_verification_method (coroutine c) fails for good in this step
SubmitFails(c) ==
    /\ ~co[c].guarded
    /\ RecordMethodFails(c) \/ NotificationFails(c)

\* C29: when an activity of the handler complete_verification_method fails
\* for good, the session keeps running with that handler ended, and its
\* score is the aggregate of its method list.
C29_FailureStep ==
    \A c \in Handlers :
        SubmitFails(c) =>
            /\ runPc' = runPc
            /\ co'[c].pc = "idle"
            /\ currentScore' = calculate_verification_score(methods')

C29_FailureContained == [][C29_FailureStep]_vars

\* the part of it that the code keeps: a failure inside update_trust_network
\* is caught and the session goes on
C29_GuardedFailureStep ==
    \A c \in Handlers :
        (co[c].guarded /\ (RecordMethodFails(c) \/ NotificationFails(c)))
            => (runPc' = runPc /\ co'[c].pc = "idle")

C29_GuardedFailureContained == [][C29_GuardedFailureStep]_vars


\* some record of the list is one of the submissions subs
Holds(ms, subs) == \E i \in 1..Len(ms) : ms[i] \in subs

\* two or more submissions have been handled to the end by a session that is
\* still in its wait
BothHandled == signals >= 2 /\ ~Busy /\ runPc = "waiting"

\* C31: two submissions with different method types are handled by one
\* session with their record activities overlapping: once both handlers have
\* finished, both records are in the persisted list and in the session's list.
C31_NoSubmissionLost ==
    BothHandled =>
        /\ Holds(dbMethods, FirstSubmissions)
        /\ Holds(dbMethods, LaterSubmissions)
        /\ Holds(methods, FirstSubmissions)
        /\ Holds(methods, LaterSubmissions)

\* both records are there when the second signal is sent after the first
\* one's handler has ended
C31_NoSubmissionLostIfSerial == env.serial => C31_NoSubmissionLost


\* C32: when the session ends, the method list of its final result is the
\* method list persisted for the user and no handler is still in progress.
C32_AllOrNothing ==
    runPc = "done" =>
        /\ result.methods_completed = dbMethods
        /\ ~HandlerBusy

\* the same for the sessions that accepted a signal and whose user had no
\* persisted record of the method type community
C32_AllOrNothingFromEmpty ==
    (signals > 0 /\ RecordsOf(dbMethods, "community") = {}) => C32_AllOrNothing


\* C33: in every state after the first decay, also right after continue_as_new,
\* the query current_reputation returns the score the most recent decay
\* produced (the one the user's row holds), and the final_reputation of a
\* result with the reason cancelled is that score.
C33_QueryIsLastDecay ==
    decays >= 1 =>
        /\ currentReputation = reputationScore
        /\ (decayPc = "done" /\ decayResult.stopped_reason = "cancelled")
              => decayResult.final_reputation = reputationScore

\* what the code keeps: within the execution that ran the decay and ended
\* the chain, the query and the result return its score
C33_LastExecutionKeepsScore ==
    (decays >= 1 /\ cycleWrites >= 1 /\ decayPc = "done"
        /\ decayResult.stopped_reason = "max_iterations")
        => /\ currentReputation = reputationScore
           /\ decayResult.final_reputation = reputationScore


\* C34: the search attribute verification_status is in_progress while the
\* session runs, and when the session has ended it is the status of the final
\* result, one of completed, timeout and cancelled.
C34_AttributeAgrees ==
    /\ Live => verification_status = "in_progress"
    /\ runPc = "done"
          => /\ verification_status = result.status
             /\ result.status \in {"completed", "timeout", "cancelled"}

\* what the code keeps: the attribute is completed only after a handler saw
\* the target reached
C34_CompletedOnlyIfReached ==
    verification_status = "completed" => (complete /\ anyHandled)


\* the except branch of the wait is taken in this step
TimeoutRaised == ~timeoutReached /\ timeoutReached'

\* C35: when the wait is evaluated with the deadline passed and a terminal
\* signal's effect in place (the event set by a target-reaching submission,
\* or the cancel flag), the status is completed or cancelled, not timeout.
C35_TieStep ==
    (runPc = "waiting" /\ runPc' \notin {"waiting", "failed"}
        /\ (complete \/ cancelled))
        => status' \in {"completed", "cancelled"}

C35_SignalWinsTie == [][C35_TieStep]_vars

\* the part that holds: the wait never times out with the cancel flag set
C35_CancelTieStep == TimeoutRaised => ~cancelled

C35_CancelWinsTie == [][C35_CancelTieStep]_vars


\* C36: a session in its wait, with no coroutine in progress, whose score is
\* at or above its target has its wait condition true, so that it completes
\* without the deadline; a session with target 0 reports 100% and is in that
\* case from its start, and never ends with the status timeout.
C36_AtTargetCompletes ==
    /\ (runPc = "waiting" /\ ~Busy /\ currentScore >= target)
          => (complete /\ progress_percentage = Pts(100))
    /\ (runPc = "done" /\ target = 0) => result.status # "timeout"

\* the second part on its own
C36_TargetZeroNoTimeout ==
    (runPc = "done" /\ target = 0) => result.status # "timeout"


\* calls of decay_reputation_score made since the chain started: one for
\* each cycle that ended, one more while the activity of a cycle is running
DecayInvocations == decayCycles + (IF decayPc = "activity" THEN 1 ELSE 0)

\* C37: over the whole chain the decay activity is invoked at most
\* max_iterations - current_iteration times, and iterations_completed of the
\* result is at most max_iterations, for every input.
C37_BoundedDecays ==
    /\ DecayInvocations <=
          Max2(decayFirst.input.max_iterations
                  - decayFirst.input.current_iteration, 0)
    /\ decayPc = "done"
          => decayResult.iterations_completed <= decayInput.max_iterations

\* both bounds hold for the inputs with current_iteration < max_iterations
C37_BoundedDecaysIfBelowMax ==
    decayFirst.input.current_iteration < decayFirst.input.max_iterations
        => C37_BoundedDecays


\* C38: appointment_status never reports completed = true with
\* scheduled = false, and every result with success = true has
\* appointment_scheduled = true and follows a scheduling step.
C38_CompletedOnlyIfScheduled ==
    /\ verificationCompleted => appointmentScheduled
    /\ (inPersonPc = "done" /\ inPersonResult.success)
          => (inPersonResult.appointment_scheduled /\ scheduleCalls >= 1)

\* the part about the results holds
C38_SuccessOnlyIfScheduled ==
    (inPersonPc = "done" /\ inPersonResult.success)
        => (inPersonResult.appointment_scheduled /\ scheduleCalls >= 1)


\* two fractions num / den of the same value
SameFraction(p, q) == p.num * q.den = q.num * p.den

\* C39: the result that run returns from its normal path is consistent,
\* whatever validator_response signals arrive while run aggregates and
\* stores: success = (validators_approved >= required_validators), the
\* evidence counts are validators_approved and validators_rejected, and
\* confidence_score is the score of the responses counted in the result.
C39_ResultConsistent ==
    CommunityReturned =>
        /\ communityResult.success
              <=> communityResult.validators_approved
                     >= communityInput.required_validators
        /\ communityResult.evidence_approvals
              = communityResult.validators_approved
        /\ communityResult.evidence_rejections
              = communityResult.validators_rejected
        /\ SameFraction(communityResult.confidence_score,
                        aggregate_validation_scores(approvals, rejections))

\* the result is consistent when no response arrives after the wait ended
C39_ConsistentIfQuiet ==
    (/\ Len(approvals) = waitEnd.approvals
     /\ Len(rejections) = waitEnd.rejections)
        => C39_ResultConsistent


AllPages == 0..(TotalPages(extractType) - 1)

====
